---- MODULE Spec2Model ----
(***************************************************************************)
(* Recipe extraction pipelines of recipe_management_cooking:               *)
(*   - the universal importer  (recipe_import_universal_v1.1.py)           *)
(*   - the specialized two-column extractor                                *)
(*     (recipe_parse_export_v3_13_forceocr.py)                             *)
(* A text is a sequence of characters.  A printable ASCII character is the *)
(* one-character string itself; every other character is the token "uXXXX" *)
(* of its code point (tab, newline and carriage return are "\t", "\n" and  *)
(* "\r").  Confidences are in hundredths (0.45 is 45).                     *)
(***************************************************************************)
EXTENDS Integers, Sequences, FiniteSets, TLC

----------------------------------------------------------------------------
(* Characters: Python's ord, str.isalpha, str.isspace, str.lower *)

Printable ==
  << " ", "!", "u0022", "#", "$", "%", "&", "'", "(", ")", "*", "+",
     ",", "-", ".", "/", "0", "1", "2", "3", "4", "5", "6", "7",
     "8", "9", ":", ";", "<", "=", ">", "?", "@", "A", "B", "C",
     "D", "E", "F", "G", "H", "I", "J", "K", "L", "M", "N", "O",
     "P", "Q", "R", "S", "T", "U", "V", "W", "X", "Y", "Z", "[",
     "u005c", "]", "^", "_", "u0060", "a", "b", "c", "d", "e", "f", "g",
     "h", "i", "j", "k", "l", "m", "n", "o", "p", "q", "r", "s",
     "t", "u", "v", "w", "x", "y", "z", "{", "|", "}", "~" >>

Extended ==
  << <<"u0001", 1>>, <<"\t", 9>>, <<"\n", 10>>, <<"\r", 13>>, <<"u001b", 27>>,
     <<"u009d", 157>>,
     <<"u00a0", 160>>, <<"u00a2", 162>>, <<"u00a6", 166>>, <<"u00a8", 168>>, <<"u00a9", 169>>,
     <<"u00ac", 172>>, <<"u00ae", 174>>, <<"u00b0", 176>>, <<"u00b4", 180>>, <<"u00b6", 182>>,
     <<"u00ba", 186>>, <<"u00bc", 188>>, <<"u00bd", 189>>, <<"u00be", 190>>, <<"u00c2", 194>>,
     <<"u00c3", 195>>, <<"u00c4", 196>>, <<"u00c5", 197>>, <<"u00ce", 206>>, <<"u00d6", 214>>,
     <<"u00e0", 224>>, <<"u00e2", 226>>, <<"u00e3", 227>>, <<"u00e4", 228>>, <<"u00e5", 229>>,
     <<"u00e6", 230>>, <<"u00e9", 233>>, <<"u00ec", 236>>, <<"u00ee", 238>>, <<"u00f4", 244>>,
     <<"u00f6", 246>>, <<"u00fc", 252>>, <<"u0153", 339>>, <<"u0161", 353>>, <<"u0192", 402>>,
     <<"u02dc", 732>>, <<"u03a9", 937>>, <<"u03c9", 969>>, <<"u2013", 8211>>, <<"u2014", 8212>>,
     <<"u2018", 8216>>, <<"u2019", 8217>>, <<"u201a", 8218>>, <<"u201c", 8220>>, <<"u201d", 8221>>,
     <<"u201e", 8222>>, <<"u2022", 8226>>, <<"u20ac", 8364>>, <<"u2122", 8482>>, <<"ufffd", 65533>> >>

Letters ==
  { "u00ba", "u00c2", "u00c3", "u00c4", "u00c5", "u00ce", "u00d6", "u00e0", "u00e2", "u00e3", "u00e4", "u00e5", "u00e6", "u00e9", "u00ec", "u00ee", "u00f4", "u00f6", "u00fc", "u0153", "u0161", "u0192", "u03a9", "u03c9" }

LowerOf ==
  << <<"u00c2", "u00e2">>, <<"u00c3", "u00e3">>, <<"u00c4", "u00e4">>, <<"u00c5", "u00e5">>, <<"u00ce", "u00ee">>, <<"u00d6", "u00f6">>, <<"u03a9", "u03c9">> >>

Range(s) == { s[k] : k \in 1..Len(s) }

\* the values of a table
Values(f) == { f[a] : a \in DOMAIN f }

\* the characters of the model
CharSet == Range(Printable) \cup { p[1] : p \in Range(Extended) }

\* the code point of every character
CodePoint ==
  [ ch \in CharSet |->
      IF \E k \in 1..Len(Printable) : Printable[k] = ch
        THEN 31 + (CHOOSE k \in 1..Len(Printable) : Printable[k] = ch)
        ELSE (CHOOSE p \in Range(Extended) : p[1] = ch)[2] ] @@ <<>>

\* ord(ch)
ord(ch) == CodePoint[ch]

\* A-Z, a-z, 0-9
Uppercase == { Printable[k] : k \in 34..59 }
Lowercase == { Printable[k] : k \in 66..91 }
Digits == { Printable[k] : k \in 17..26 }

\* ch.isspace(), and the class \s of re on str
isspace(ch) == ch \in {" ", "\t", "\n", "\r", "u00a0"}

\* ch.isalpha()
isalpha(ch) == ch \in Letters \/ ch \in Uppercase \/ ch \in Lowercase

\* ch.isdigit(), and the class \d of re, on the characters of the model
isdigit(ch) == ch \in Digits

\* the lowercase form of every character
LowerForm ==
  [ ch \in CharSet |->
      IF ch \in Uppercase
        THEN Printable[32 + (CHOOSE k \in 34..59 : Printable[k] = ch)]
        ELSE IF \E p \in Range(LowerOf) : p[1] = ch
          THEN (CHOOSE p \in Range(LowerOf) : p[1] = ch)[2]
          ELSE ch ] @@ <<>>

\* ch.lower()
lower_char(ch) == LowerForm[ch]

\* txt.lower()
lower(txt) == [k \in 1..Len(txt) |-> lower_char(txt[k])] \o <<>>

----------------------------------------------------------------------------
(* Strings: the str methods and the re calls the scripts use *)

\* txt[a:] for 0 <= a (Python slice, 0-based)
From(txt, a) == SubSeq(txt, a + 1, Len(txt))

\* txt.startswith(pre, at) with at 0-based
StartsAt(txt, pre, at) ==
  /\ at + Len(pre) <= Len(txt)
  /\ \A k \in 1..Len(pre) : txt[at + k] = pre[k]

\* pre in txt
Contains(txt, pre) == \E at \in 0..(Len(txt) - Len(pre)) : StartsAt(txt, pre, at)

\* the least and the greatest element of a non-empty set of integers
Min(S) == CHOOSE x \in S : \A y \in S : x <= y
Max(S) == CHOOSE x \in S : \A y \in S : x >= y

RECURSIVE Flatten(_)
\* "".join(parts)
Flatten(parts) ==
  IF parts = <<>> THEN <<>>
  ELSE IF Len(parts) = 1 THEN parts[1]
  ELSE LET mid == Len(parts) \div 2
       IN  Flatten(SubSeq(parts, 1, mid)) \o Flatten(SubSeq(parts, mid + 1, Len(parts)))

RECURSIVE ReplaceFrom(_, _, _, _)
\* txt[at:] with every occurrence of bad replaced, occurrences taken from
\* the left and not overlapping
ReplaceFrom(txt, bad, good, at) ==
  LET hits == { m \in at..(Len(txt) - Len(bad)) : StartsAt(txt, bad, m) }
  IN  IF hits = {} THEN From(txt, at)
      ELSE LET m == Min(hits)
           IN  SubSeq(txt, at + 1, m) \o good \o ReplaceFrom(txt, bad, good, m + Len(bad))

\* txt.replace(bad, good), bad not empty
replace(txt, bad, good) == ReplaceFrom(txt, bad, good, 0)

RECURSIVE ReplaceAll(_, _, _)
\* for bad, good in table.items(): txt = txt.replace(bad, good), from the
\* k-th entry of the table on; an entry that does not occur changes nothing
ReplaceAll(txt, tbl, k) ==
  LET hits == { j \in k..Len(tbl) : Contains(txt, tbl[j][1]) }
  IN  IF hits = {} THEN txt
      ELSE LET j == Min(hits)
           IN  ReplaceAll(replace(txt, tbl[j][1], tbl[j][2]), tbl, j + 1)

\* txt.strip()
strip(txt) ==
  LET inked == { k \in 1..Len(txt) : ~isspace(txt[k]) }
  IN  IF inked = {} THEN <<>> ELSE SubSeq(txt, Min(inked), Max(inked))

\* the positions 1..n in order
Positions(n) == [k \in 1..n |-> k] \o <<>>

\* re.sub(r"\s{2,}", " ", txt): a run of two or more whitespace characters
\* becomes one space, a single whitespace character stays as it is
collapse_spaces(txt) ==
  LET RunStart(k) == isspace(txt[k]) /\ (k = 1 \/ ~isspace(txt[k - 1]))
      Long(k) == k < Len(txt) /\ isspace(txt[k + 1])
      Kept(k) == ~isspace(txt[k]) \/ RunStart(k)
      at == SelectSeq(Positions(Len(txt)), Kept)
  IN  [j \in 1..Len(at) |->
         IF RunStart(at[j]) /\ Long(at[j]) THEN " " ELSE txt[at[j]]] \o <<>>

\* length of the run of whitespace that starts at 0-based position at
SpaceRun(txt, at) ==
  LET stops == { k \in (at + 1)..Len(txt) : ~isspace(txt[k]) }
  IN  IF stops = {} THEN Len(txt) - at ELSE Min(stops) - at - 1

\* txt.splitlines(): a line ends at "\n", "\r" or "\r\n"; no empty last line
splitlines(txt) ==
  LET EndsBreak(k) == \/ txt[k] = "\n"
                      \/ txt[k] = "\r" /\ ~(k < Len(txt) /\ txt[k + 1] = "\n")
      ends == SelectSeq(Positions(Len(txt)), EndsBreak)
      First(j) == IF j = 1 THEN 1 ELSE ends[j - 1] + 1
      Last(j) == IF txt[ends[j]] = "\n" /\ ends[j] > 1 /\ txt[ends[j] - 1] = "\r"
                   THEN ends[j] - 2 ELSE ends[j] - 1
      broken == [j \in 1..Len(ends) |-> SubSeq(txt, First(j), Last(j))] \o <<>>
      rest == SubSeq(txt, First(Len(ends) + 1), Len(txt))
  IN  IF rest = <<>> THEN broken ELSE Append(broken, rest)

\* sep.join(parts)
join(sep, parts) ==
  IF parts = <<>> THEN <<>>
  ELSE Flatten([k \in 1..(2 * Len(parts) - 1) |->
                  IF k % 2 = 1 THEN parts[(k + 1) \div 2] ELSE sep] \o <<>>)

\* the marker put in place of an unknown character
UNK_with_question_mark == <<"[", "?", "]">>
UNK == <<"[", "u", "n", "k", "]">>

----------------------------------------------------------------------------
(* Text Normalizer *)

replacements ==
  <<
    <<<<"u00ac", "u03a9">>, <<"1", "/", "2">>>>,
    <<<<"u00ac", "u00e6">>, <<"3", "/", "4">>>>,
    <<<<"u00ac", "u00ba">>, <<"1", "/", "8">>>>,
    <<<<"u00ac", "u00bd">>, <<"1", "/", "4">>>>,
    <<<<"u201a", "u00c4", "u00a2">>, <<>>>>,
    <<<<"u201a", "u00c4", "u00f4", "s">>, <<"u2019", "s">>>>,
    <<<<"u201a", "u00c4", "u00ec">>, <<"-">>>>,
    <<<<"u00e2", "u20ac", "u201c">>, <<"-">>>>,
    <<<<"u00e2", "u20ac", "u201d">>, <<"u2014">>>>,
    <<<<"u00e2", "u20ac", "u02dc">>, <<"u2018">>>>,
    <<<<"u00e2", "u20ac", "u2122">>, <<"u2019">>>>,
    <<<<"u00e2", "u20ac", "u0153">>, <<"u201c">>>>,
    <<<<"u00e2", "u20ac", "u009d">>, <<"u201d">>>>,
    <<<<"u00c3", "u00a9">>, <<"u00e9">>>>,
    <<<<"u00c3", "u00bc">>, <<"u00fc">>>>,
    <<<<"u00c3">>, <<"u00e0">>>>,
    <<<<"u00c2">>, <<>>>>,
    <<<<"u201a", "u00d6", "u00ec">>, <<"1", "/", "3">>>>,
    <<<<"u201a", "u00d6", "u00ee">>, <<"1", "/", "3">>>>
  >>

fixes ==
  <<
    <<<<"u00c3", "u00a2", "u00e2", "u201a", "u00ac", "u00e2", "u201e", "u00a2">>, <<"u00e2", "u20ac", "u2122">>>>,
    <<<<"u00c3", "u00a2", "u00e2", "u201a", "u00ac", "u00c5", "u201c">>, <<"u00e2", "u20ac", "u0153">>>>,
    <<<<"u00c3", "u00a2", "u00e2", "u201a", "u00ac", "u00c2">>, <<"u00e2", "u20ac">>>>,
    <<<<"u00c3", "u00a2", "u00e2", "u201a", "u00ac", "u00e2", "u20ac", "u0153">>, <<"-">>>>,
    <<<<"u00c3", "u00a2", "u00e2", "u201a", "u00ac", "u00e2", "u20ac">>, <<"u00e2", "u20ac", "u201c">>>>,
    <<<<"u00c3", "u201a", "u00c2", "u00bd">>, <<"u00c2", "u00bd">>>>,
    <<<<"u00c3", "u201a", "u00c2", "u00bc">>, <<"u00c2", "u00bc">>>>,
    <<<<"u00c3", "u201a", "u00c2", "u00be">>, <<"u00c2", "u00be">>>>,
    <<<<"u00c3", "u201a", "u00c2", "u00ba">>, <<"u00c2", "u00ba">>>>,
    <<<<"u00c3", "u201a", "u00c2", "u00b0">>, <<"u00c2", "u00b0">>>>,
    <<<<"u00c3", "u0192", "u00c2", "u00a9">>, <<"u00c3", "u00a9">>>>,
    <<<<"u00c3", "u0192", "u00c2", "u00a8">>, <<"u00c3", "u00a8">>>>,
    <<<<"u00c3", "u0192", "u00c2", "u00a2">>, <<"u00c3", "u00a2">>>>,
    <<<<"u00c3", "u0192", "u00c2", "u00ae">>, <<"u00c3", "u00ae">>>>,
    <<<<"u00c3", "u0192", "u00c2", "u00b4">>, <<"u00c3", "u00b4">>>>,
    <<<<"u00c3", "u0192", "u00c2", "u00b6">>, <<"u00c3", "u00b6">>>>,
    <<<<"u00c3", "u0192", "u00c2", "u00bc">>, <<"u00c3", "u00bc">>>>,
    <<<<"u00c3", "u0192">>, <<"u00c3", "u00a0">>>>,
    <<<<"u00c3", "u201a">>, <<>>>>,
    <<<<"u00e2", "u20ac", "u0161", "u00c3", "u201e", "u00c2", "u00a2">>, <<"u00e2", "u20ac", "u00a2">>>>,
    <<<<"u00e2", "u20ac", "u0161", "u00c3", "u201e", "u00c3", "u00b4", "s">>, <<"u00e2", "u20ac", "u2122", "s">>>>,
    <<<<"u00e2", "u20ac", "u0161", "u00c3", "u201e", "u00c3", "u00ac">>, <<"-">>>>,
    <<<<"u00c2", "u00ac", "u00ce", "u00a9">>, <<"1", "/", "2">>>>,
    <<<<"u00e2", "u20ac", "u0161", "u00c3", "u2013", "u00c3", "u00ae">>, <<"1", "/", "3">>>>,
    <<<<"u00c2", "u00ac", "u00c3", "u00a6">>, <<"3", "/", "4">>>>,
    <<<<"u00c2", "u00ac", "u00c2", "u00ba">>, <<"1", "/", "8">>>>
  >>

\* txt.encode("ascii", "replace").decode("ascii")
ascii_replace(txt) ==
  [k \in 1..Len(txt) |-> IF ord(txt[k]) < 128 THEN txt[k] ELSE "?"] \o <<>>

\* clean_utf8_text of the universal importer
U_clean_utf8_text(txt) ==
  LET t1 == ReplaceAll(txt, replacements, 1)
      t2 == ascii_replace(t1)
      t3 == replace(t2, <<"?">>, UNK)
      t4 == collapse_spaces(t3)
      t5 == replace(t4, <<"u2022">>, <<>>)
  IN  strip(t5)

\* the characters the specialized normalizer keeps beside 32..126
Allowed == {"\n", "\r", "\t", "u00e2", "u20ac", "u201c", "u201d", "u2122", "u00a2"}

\* clean_utf8_text of the specialized extractor
S_clean_utf8_text(txt) ==
  LET t1 == ReplaceAll(txt, fixes, 1)
      t2 == Flatten([k \in 1..Len(t1) |->
                IF (32 <= ord(t1[k]) /\ ord(t1[k]) <= 126) \/ t1[k] \in Allowed
                  THEN <<t1[k]>> ELSE UNK] \o <<>>)
      t3 == collapse_spaces(t2)
  IN  strip(t3)

----------------------------------------------------------------------------
(* Quality Estimator *)

\* text_garble_score: the fraction weird / len as [num, den]
text_garble_score(txt) ==
  IF strip(txt) = <<>> THEN [num |-> 1, den |-> 1]
  ELSE [num |-> Cardinality({k \in 1..Len(txt) :
                   /\ txt[k] \notin {"\n", "\r", "\t"}
                   /\ (ord(txt[k]) > 126 \/ ord(txt[k]) < 9)}),
        den |-> IF Len(txt) > 1 THEN Len(txt) ELSE 1]

\* GARBLED_THRESHOLD = 0.25 as a fraction
GARBLED_THRESHOLD == [num |-> 1, den |-> 4]

\* score > threshold
exceeds(score, thr) == score.num * thr.den > thr.num * score.den

\* text_is_garbled of the universal importer
text_is_garbled(txt) ==
  IF Len(strip(txt)) < 40 THEN TRUE
  ELSE LET letters == Cardinality({k \in 1..Len(txt) : isalpha(txt[k])})
           n == IF Len(txt) > 1 THEN Len(txt) ELSE 1
       IN  5 * letters < n

----------------------------------------------------------------------------
(* Layout Extractor.  A page is [raises, width, words, text, ocr]: whether  *)
(* reading it raises, page.width, page.extract_words() as a sequence of    *)
(* [text, x0, top] (top in tenths of a unit), page.extract_text(), and what *)
(* pytesseract.image_to_string gives for its image: [raises, text].        *)

LEFT_COLUMN_XMAX == 280
RIGHT_COLUMN_XMIN_overlapping == LEFT_COLUMN_XMAX - 1
RIGHT_COLUMN_XMIN == 280

\* [w["text"] for w in ws]
TextsOf(ws) == [k \in 1..Len(ws) |-> ws[k].text] \o <<>>

\* extract_text_zones of the universal importer: (left, right)
extract_text_zones(page) ==
  IF page.words = <<>> THEN <<<<>>, <<>>>>
  ELSE LET InLeft(w) == 2 * w.x0 < page.width
           InRight(w) == 2 * w.x0 >= page.width
       IN  << join(<<"\n">>, TextsOf(SelectSeq(page.words, InLeft))),
              join(<<"\n">>, TextsOf(SelectSeq(page.words, InRight))) >>

\* round(top, 0): to the nearest unit, a half to the even one
round0(top10) ==
  LET q == top10 \div 10
      r == top10 % 10
  IN  IF r < 5 THEN q
      ELSE IF r > 5 THEN q + 1
      ELSE IF q % 2 = 0 THEN q ELSE q + 1

RECURSIVE sorted(_)
\* sorted(keys) of a set of integers
sorted(keys) ==
  IF keys = {} THEN <<>>
  ELSE LET m == CHOOSE x \in keys : \A y \in keys : x <= y
       IN  <<m>> \o sorted(keys \ {m})

\* join_column: words grouped into lines by rounded top, lines top-down
join_column(ws) ==
  LET ys == sorted({ round0(ws[k].top) : k \in 1..Len(ws) })
      OnLine(y) == LET At(w) == round0(w.top) = y IN TextsOf(SelectSeq(ws, At))
  IN  join(<<"\n">>, [k \in 1..Len(ys) |-> join(<<" ">>, OnLine(ys[k]))] \o <<>>)

\* extract_columns_from_page of the specialized extractor: (left, right)
extract_columns_from_page(page) ==
  IF page.words = <<>> THEN <<<<>>, <<>>>>
  ELSE LET InLeft(w) == w.x0 < LEFT_COLUMN_XMAX
           InRight(w) == w.x0 >= RIGHT_COLUMN_XMIN
       IN  << join_column(SelectSeq(page.words, InLeft)),
              join_column(SelectSeq(page.words, InRight)) >>

\* split_ocr_text: first half of the lines, second half of the lines
split_ocr_text(txt) ==
  LET lines == splitlines(txt)
      mid == Len(lines) \div 2
  IN  << join(<<"\n">>, SubSeq(lines, 1, mid)),
         join(<<"\n">>, SubSeq(lines, mid + 1, Len(lines))) >>

----------------------------------------------------------------------------
(* Optical Recognition Fallback and the text of one page *)

\* CONFIG of the universal importer
MAX_PAGES == 50
MOVE_PROCESSED == TRUE

\* the zone text, or the full-page text when the zone text is empty or garbled
zone_or_full_text(page) ==
  LET Chosen(merged) ==
        IF merged = <<>> \/ text_is_garbled(merged)
          THEN U_clean_utf8_text(page.text) ELSE merged
      Merged(zones) == Chosen(U_clean_utf8_text(zones[1] \o <<"\n">> \o zones[2]))
  IN  Merged(extract_text_zones(page))

base_conf_flat(merged) == 50
\* conf = 0.5; if text_is_garbled(merged): conf -= 0.2
base_conf(merged) == IF text_is_garbled(merged) THEN 50 - 20 ELSE 50

\* USE_OCR_FALLBACK and (not merged or conf < 0.4)
U_ocr_wanted(use_ocr, merged, conf) == use_ocr /\ (merged = <<>> \/ conf < 40)

U_except_blank(merged) == <<>>
\* except Exception: pass -- the text stays what it was before the call
U_except_pass(merged) == merged

ocr_is_shorter(ocr, merged) == Len(ocr) < Len(merged)
\* len(ocr) > len(merged)
ocr_is_longer(ocr, merged) == Len(ocr) > Len(merged)

\* min(max(conf, 0.0), 1.0)
clamp(conf) == IF conf < 0 THEN 0 ELSE IF conf > 100 THEN 100 ELSE conf

\* extract_best_text: the text and confidence returned, with the text before
\* the fallback (pre) and what became of the recognition call (ocr)
extract_best_text(page, use_ocr) ==
  LET Returned(merged, conf, call, taken) ==
        [ txt  |-> strip(IF taken THEN U_clean_utf8_text(page.ocr.text)
                         ELSE IF call /\ page.ocr.raises THEN U_except_pass(merged)
                         ELSE merged),
          conf |-> clamp(IF taken THEN conf + 30 ELSE conf),
          pre  |-> merged,
          ocr  |-> IF ~call THEN "no" ELSE IF page.ocr.raises THEN "raised" ELSE "ok" ]
      Fallback(merged, conf, call) ==
        Returned(merged, conf, call,
                 call /\ ~page.ocr.raises /\ ocr_is_longer(page.ocr.text, merged))
      Scored(merged, conf) == Fallback(merged, conf, U_ocr_wanted(use_ocr, merged, conf))
      Merged(merged) == Scored(merged, base_conf(merged))
  IN  Merged(zone_or_full_text(page))

S_ocr_wanted_at_threshold(have_ocr, force, garble_score) ==
  have_ocr /\ (force \/ ~exceeds(GARBLED_THRESHOLD, garble_score))
\* pytesseract and (force_ocr or garble_score > GARBLED_THRESHOLD)
S_ocr_wanted(have_ocr, force, garble_score) ==
  have_ocr /\ (force \/ exceeds(garble_score, GARBLED_THRESHOLD))

\* one iteration of extract_text_from_pdf on a selected page: the columns
\* appended to results, with the garble score, the columns before the
\* fallback (pre) and what became of the recognition call (ocr)
extract_page(page, have_ocr, force) ==
  LET Appended(cols, garble_score, call, used) ==
        [ left  |-> S_clean_utf8_text(used[1]),
          right |-> S_clean_utf8_text(used[2]),
          score |-> garble_score,
          pre   |-> <<S_clean_utf8_text(cols[1]), S_clean_utf8_text(cols[2])>>,
          ocr   |-> IF ~call THEN "no" ELSE IF page.ocr.raises THEN "raised" ELSE "ok" ]
      Fallback(cols, garble_score, call) ==
        Appended(cols, garble_score, call,
                 IF call /\ ~page.ocr.raises THEN split_ocr_text(page.ocr.text) ELSE cols)
      Scored(cols, garble_score) ==
        Fallback(cols, garble_score, S_ocr_wanted(have_ocr, force, garble_score))
      Columns(cols) ==
        Scored(cols, text_garble_score(S_clean_utf8_text(cols[1] \o cols[2])))
  IN  Columns(extract_columns_from_page(page))

----------------------------------------------------------------------------
(* Field Segmenter *)

UNTITLED_blank == <<>>
UNTITLED == <<"U", "n", "t", "i", "t", "l", "e", "d", " ", "R", "e", "c", "i", "p", "e">>
H_INGREDIENT == <<"i", "n", "g", "r", "e", "d", "i", "e", "n", "t">>
H_DIRECTION == <<"d", "i", "r", "e", "c", "t", "i", "o", "n">>
H_INSTRUCTION == <<"i", "n", "s", "t", "r", "u", "c", "t", "i", "o", "n">>
W_IT == <<"I", "t">>
W_AS == <<"A", "s">>
W_DESPITE == <<"D", "e", "s", "p", "i", "t", "e">>
PAGE_OPEN == <<" ", "(", "P", "a", "g", "e", " ">>
\* the lexicon of detect_tags, in sorted order
LEXICON ==
  << <<"b", "a", "k", "e">>,
     <<"b", "e", "e", "f">>,
     <<"c", "h", "i", "c", "k", "e", "n">>,
     <<"c", "h", "i", "n", "e", "s", "e">>,
     <<"d", "e", "s", "s", "e", "r", "t">>,
     <<"g", "r", "i", "l", "l">>,
     <<"i", "n", "d", "i", "a", "n">>,
     <<"i", "t", "a", "l", "i", "a", "n">>,
     <<"m", "e", "x", "i", "c", "a", "n">>,
     <<"n", "o", "o", "d", "l", "e">>,
     <<"p", "a", "s", "t", "a">>,
     <<"p", "o", "r", "k">>,
     <<"r", "o", "a", "s", "t">>,
     <<"s", "o", "u", "p">>,
     <<"s", "t", "e", "w">>,
     <<"s", "t", "i", "r", "-", "f", "r", "y">>,
     <<"t", "h", "a", "i">>,
     <<"v", "e", "g", "a", "n">>,
     <<"v", "e", "g", "e", "t", "a", "r", "i", "a", "n">>,
     <<"v", "i", "e", "t", "n", "a", "m", "e", "s", "e">> >>

\* [ln.strip() for ln in txt.splitlines() if ln.strip()]
stripped_lines(txt) ==
  LET raw == splitlines(txt)
      NonEmpty(ln) == strip(ln) # <<>>
      kept == SelectSeq(raw, NonEmpty)
  IN  [k \in 1..Len(kept) |-> strip(kept[k])] \o <<>>

\* re.match(r"(?i)^<word>s?[:\s]", line)
header_match(line, word) ==
  LET low == lower(line)
      n == Len(word)
      Sep(at) == at < Len(line) /\ (line[at + 1] = ":" \/ isspace(line[at + 1]))
  IN  /\ StartsAt(low, word, 0)
      /\ \/ (n < Len(low) /\ low[n + 1] = "s" /\ Sep(n + 1))
         \/ Sep(n)

\* next((i for i, l in enumerate(lines) if pred(l)), None): 0-based, None is -1
first_index(hits) ==
  IF \E k \in 1..Len(hits) : hits[k]
    THEN (CHOOSE k \in 1..Len(hits) :
            hits[k] /\ \A j \in 1..(k - 1) : ~hits[j]) - 1
    ELSE -1

\* the truth value of an index: None and 0 are false
truthy(index) == index > 0

\* lines[a:b] (Python slice, 0-based, 0 <= a)
slice(lines, a, b) ==
  LET hi == IF b > Len(lines) THEN Len(lines) ELSE b
  IN  IF a >= hi THEN <<>> ELSE SubSeq(lines, a + 1, hi)

detect_tags_reversed(text) ==
  LET Found(k) == Contains(lower(text), k)
      Back(found) == [k \in 1..Len(found) |-> found[Len(found) + 1 - k]] \o <<>>
  IN  Back(SelectSeq(LEXICON, Found))
\* detect_tags without the optional spaCy model (nlp = None)
detect_tags(text) ==
  LET low == lower(text)
      Found(k) == Contains(low, k)
  IN  SelectSeq(LEXICON, Found)

\* parse_recipe_text of the universal importer
U_parse_recipe_text(txt, filename, page_num) ==
  LET IsIng(l) == header_match(l, H_INGREDIENT)
      IsDir(l) == header_match(l, H_DIRECTION) \/ header_match(l, H_INSTRUCTION)
      Record(lines, title, description, found, directions) ==
        [ title       |-> title,
          description |-> description,
          ingredients |-> IF found = <<>> /\ Len(lines) > 4
                            THEN slice(lines, 1, 5) ELSE found,
          directions  |-> directions,
          tags        |-> detect_tags(join(<<" ">>, lines)),
          confidence  |-> 0,
          source_file |-> filename,
          page        |-> page_num ]
      Between(between) ==
        [k \in 1..Len(between) |-> U_clean_utf8_text(between[k])] \o <<>>
      Sections(lines, ing_idx, dir_idx, titled) ==
        Record(lines,
               IF titled \/ Len(lines) > 1 THEN lines[1] ELSE UNTITLED,
               IF ~titled /\ Len(lines) > 1
                 THEN join(<<" ">>, slice(lines, 1, 3)) ELSE <<>>,
               IF truthy(ing_idx)
                 THEN Between(slice(lines, ing_idx + 1,
                                    IF truthy(dir_idx) THEN dir_idx ELSE Len(lines)))
                 ELSE <<>>,
               IF truthy(dir_idx)
                 THEN join(<<" ">>, slice(lines, dir_idx + 1, Len(lines)))
                 ELSE <<>>)
      Headers(lines, ing_idx, dir_idx) ==
        Sections(lines, ing_idx, dir_idx, truthy(ing_idx) /\ ing_idx < 5)
      Lines(lines) ==
        Headers(lines,
                first_index([k \in 1..Len(lines) |-> IsIng(lines[k])] \o <<>>),
                first_index([k \in 1..Len(lines) |-> IsDir(lines[k])] \o <<>>))
  IN  Lines(stripped_lines(txt))

\* a < b for two str: by code points, a proper prefix first
text_less(a, b) ==
  \E k \in 1..Len(b) :
    /\ \A j \in 1..(k - 1) : j <= Len(a) /\ a[j] = b[j]
    /\ (k > Len(a) \/ (k - 1 < Len(a) /\ ord(a[k]) < ord(b[k])))

RECURSIVE sorted_texts(_)
\* sorted(tags) of a set of str
sorted_texts(tags) ==
  IF tags = {} THEN <<>>
  ELSE LET least == CHOOSE x \in tags : \A y \in tags \ {x} : text_less(x, y)
       IN  <<least>> \o sorted_texts(tags \ {least})

\* the labels of the entities that become tags
TAG_LABELS == {"NORP", "GPE", "PRODUCT"}

\* for ent in doc.ents: if ent.label_ in (...): tags.add(ent.text.lower())
entity_tags(ents) ==
  { lower(ents[k].text) : k \in { j \in 1..Len(ents) : ents[j].label_ \in TAG_LABELS } }

detect_tags_entities_only(text, ents) == sorted_texts(entity_tags(ents))
\* detect_tags with the spaCy model loaded, ents being nlp(text).ents
detect_tags_nlp(text, ents) ==
  sorted_texts(Range(detect_tags(text)) \cup entity_tags(ents))

\* parse_recipe_text with the spaCy model loaded: tags is the one field that
\* is computed with it
U_parse_recipe_text_nlp(txt, filename, page_num, ents) ==
  [U_parse_recipe_text(txt, filename, page_num) EXCEPT
     !.tags = detect_tags_nlp(join(<<" ">>, stripped_lines(txt)), ents)]

RECURSIVE str(_)
\* str(n) of a natural number
str(n) == IF n < 10 THEN <<Printable[17 + n]>> ELSE str(n \div 10) \o <<Printable[17 + (n % 10)]>>

\* \w of re
is_word_char(ch) == isalpha(ch) \/ isdigit(ch) \/ ch = "_"

\* re.search(r"[a-z]", ln)
has_lowercase(ln) == \E k \in 1..Len(ln) : ln[k] \in Lowercase

\* re.match(r"^[#\d:\-\sA-Z]+$", ln)
is_title_line(ln) ==
  /\ ln # <<>>
  /\ \A k \in 1..Len(ln) :
       \/ ln[k] \in {"#", ":", "-"}
       \/ isdigit(ln[k])
       \/ isspace(ln[k])
       \/ ln[k] \in Uppercase

\* the lines the title loop collects: it stops at the first line with a
\* lowercase letter and keeps the lines before it that are title lines
title_lines_of(lines) ==
  LET stop == IF \E k \in 1..Len(lines) : has_lowercase(lines[k])
                THEN CHOOSE k \in 1..Len(lines) :
                       has_lowercase(lines[k]) /\ \A j \in 1..(k - 1) : ~has_lowercase(lines[j])
                ELSE Len(lines) + 1
  IN  SelectSeq(SubSeq(lines, 1, stop - 1), is_title_line)

\* length of the run of digits that starts at 0-based position at
DigitRun(txt, at) ==
  LET stops == { k \in (at + 1)..Len(txt) : ~isdigit(txt[k]) }
  IN  IF stops = {} THEN Len(txt) - at ELSE Min(stops) - at - 1

\* re.sub(r"^#?\s*\d*[:\-]?\s*", "", txt)
strip_page_prefix(txt) ==
  LET a == IF 0 < Len(txt) /\ txt[1] = "#" THEN 1 ELSE 0
      b == a + SpaceRun(txt, a)
      c == b + DigitRun(txt, b)
      colon == IF c < Len(txt) /\ txt[c + 1] \in {":", "-"} THEN c + 1 ELSE c
      e == colon + SpaceRun(txt, colon)
  IN  From(txt, e)

\* \b at position at of txt (0-based, between txt[at-1] and txt[at])
word_boundary(txt, at) ==
  LET before == at > 0 /\ is_word_char(txt[at])
      after == at < Len(txt) /\ is_word_char(txt[at + 1])
  IN  before # after

\* re.sub(r"\b(It|As|Despite)\b.*", "", txt) on a text of one line
strip_dangling_clause(txt) ==
  LET Hit(at) == /\ word_boundary(txt, at)
                 /\ \E w \in {W_IT, W_AS, W_DESPITE} :
                      StartsAt(txt, w, at) /\ word_boundary(txt, at + Len(w))
  IN  IF \E at \in 0..Len(txt) : Hit(at)
        THEN SubSeq(txt, 1, CHOOSE at \in 0..Len(txt) :
                              Hit(at) /\ \A j \in 0..(at - 1) : ~Hit(j))
        ELSE txt

\* the title of parse_recipe_text of the specialized extractor
S_title(right_text) ==
  LET lines == stripped_lines(right_text)
      title_joined == strip(join(<<" ">>, title_lines_of(lines)))
      trimmed == strip(strip_dangling_clause(strip_page_prefix(title_joined)))
  IN  IF trimmed = <<>> THEN UNTITLED ELSE trimmed

W_SERVES == <<"s", "e", "r", "v", "e", "s">>
W_MAKES == <<"m", "a", "k", "e", "s">>
W_YIELD == <<"y", "i", "e", "l", "d">>
FOOTER == <<"t", "h", "e", " ", "w", "o", "k", "s", " ", "o", "f", " ", "l", "i", "f", "e">>

\* the character class [0-9...] of the servings pattern under re.I: the digits
\* and the characters of the mis-decoded fractions, in either case
ServingChars == Digits \cup {"u00c2", "u00e2", "u00bd", "u00bc", "u00be"}

\* re.search(r"(SERVES|MAKES)\s+([0-9...]+)", left_text, re.I): group 2 of the
\* leftmost match, stripped; "" without a match
S_servings(left_text) ==
  LET low == lower(left_text)
      Amount(at) == at + SpaceRun(left_text, at)
      HitWith(at, w) ==
        /\ StartsAt(low, w, at)
        /\ SpaceRun(left_text, at + Len(w)) >= 1
        /\ Amount(at + Len(w)) < Len(left_text)
        /\ left_text[Amount(at + Len(w)) + 1] \in ServingChars
      Hit(at) == HitWith(at, W_SERVES) \/ HitWith(at, W_MAKES)
      Run(from) ==
        LET stops == { k \in (from + 1)..Len(left_text) : left_text[k] \notin ServingChars }
        IN  SubSeq(left_text, from + 1, IF stops = {} THEN Len(left_text) ELSE Min(stops) - 1)
      Group(at) == Run(Amount(at + (IF HitWith(at, W_SERVES) THEN Len(W_SERVES) ELSE Len(W_MAKES))))
      hits == { at \in 0..Len(left_text) : Hit(at) }
  IN  IF hits = {} THEN <<>> ELSE strip(Group(Min(hits)))

\* the step triggers of the directions, in lower case (the pattern is matched
\* with re.I at the start of a line)
STEP_TRIGGERS ==
  << <<"i", "n", " ", "a">>,
     <<"a", "d", "d">>,
     <<"h", "e", "a", "t">>,
     <<"p", "o", "u", "r">>,
     <<"m", "i", "x">>,
     <<"w", "h", "i", "s", "k">>,
     <<"c", "o", "m", "b", "i", "n", "e">>,
     <<"c", "o", "o", "k">>,
     <<"m", "e", "a", "n", "w", "h", "i", "l", "e">>,
     <<"s", "t", "i", "r">>,
     <<"s", "e", "r", "v", "e">>,
     <<"t", "r", "a", "n", "s", "f", "e", "r">>,
     <<"p", "r", "e", "h", "e", "a", "t">> >>

\* step_triggers.match(ln)
step_trigger_match(ln) ==
  \E k \in 1..Len(STEP_TRIGGERS) : StartsAt(lower(ln), STEP_TRIGGERS[k], 0)

RECURSIVE RemoveFooterFrom(_, _)
\* txt[at:] with every match of r"THE WOKS OF LIFE\s*\|.*" (re.I) removed: the
\* words, optional white space, the bar and the rest of the line
RemoveFooterFrom(txt, at) ==
  LET low == lower(txt)
      Bar(m) == m + Len(FOOTER) + SpaceRun(txt, m + Len(FOOTER))
      Hit(m) == StartsAt(low, FOOTER, m) /\ Bar(m) < Len(txt) /\ txt[Bar(m) + 1] = "|"
      hits == { m \in at..Len(txt) : Hit(m) }
      LineEnd(m) ==
        LET ends == { k \in (Bar(m) + 1)..Len(txt) : txt[k] = "\n" }
        IN  IF ends = {} THEN Len(txt) ELSE Min(ends) - 1
      Cut(m) == SubSeq(txt, at + 1, m) \o RemoveFooterFrom(txt, LineEnd(m))
  IN  IF hits = {} THEN From(txt, at) ELSE Cut(Min(hits))

\* strip_footer(txt)
strip_footer(txt) == strip(RemoveFooterFrom(txt, 0))

\* the lines of the right column after the title: those not in title_lines
S_body_lines(lines) ==
  LET titles == Range(title_lines_of(lines))
      NotTitle(ln) == ln \notin titles
  IN  SelectSeq(lines, NotTitle)

\* the loop over lines: desc_lines are the lines before the first line a step
\* trigger matches, dir_lines that line and the lines after it
S_split_body(body) ==
  LET First(at) == [ desc_lines |-> SubSeq(body, 1, at), dir_lines |-> From(body, at) ]
      triggers == { k \in 1..Len(body) : step_trigger_match(body[k]) }
  IN  First(IF triggers = {} THEN Len(body) ELSE Min(triggers) - 1)

RECURSIVE DehyphenateFrom(_, _)
\* re.sub(r"(\w)-\s+(\w)", r"\1\2", txt) on txt[at:]
DehyphenateFrom(txt, at) ==
  LET After(m) == m + 2 + SpaceRun(txt, m + 2)
      Hit(m) == /\ m + 2 < Len(txt)
                /\ is_word_char(txt[m + 1]) /\ txt[m + 2] = "-"
                /\ SpaceRun(txt, m + 2) >= 1
                /\ After(m) < Len(txt) /\ is_word_char(txt[After(m) + 1])
      hits == { m \in at..Len(txt) : Hit(m) }
      Cut(m) == SubSeq(txt, at + 1, m + 1) \o <<txt[After(m) + 1]>>
                  \o DehyphenateFrom(txt, After(m) + 1)
  IN  IF hits = {} THEN From(txt, at) ELSE Cut(Min(hits))

\* the characters ln.strip(...) of the ingredient lines takes off both ends:
\* the mis-decoded bullet, the blank and the tab
BULLET_CHARS == {"u00e2", "u20ac", "u00a2", " ", "\t"}

\* ln.strip(chars)
strip_chars(ln, chars) ==
  LET inked == { k \in 1..Len(ln) : ln[k] \notin chars }
  IN  IF inked = {} THEN <<>> ELSE SubSeq(ln, Min(inked), Max(inked))

\* re.sub(r"^\[unk\]\s*", "", ln)
strip_unk_bullet(ln) ==
  IF StartsAt(ln, UNK, 0) THEN From(ln, Len(UNK) + SpaceRun(ln, Len(UNK))) ELSE ln

\* len(ln.split())
word_count(ln) ==
  Cardinality({ k \in 1..Len(ln) : ~isspace(ln[k]) /\ (k = 1 \/ isspace(ln[k - 1])) })

\* re.match(r"^(SERVES|MAKES|YIELD)", ln, re.I)
is_yield_line(ln) ==
  \E w \in {W_SERVES, W_MAKES, W_YIELD} : StartsAt(lower(ln), w, 0)

continues_without_slash(ln) ==
  /\ \A k \in 1..Len(ln) : ~isdigit(ln[k])
  /\ word_count(ln) < 3
\* not re.search(r"[0-9/]", ln) and len(ln.split()) < 3
continues(ln) ==
  /\ \A k \in 1..Len(ln) : ~(isdigit(ln[k]) \/ ln[k] = "/")
  /\ word_count(ln) < 3

RECURSIVE S_ing_lines(_, _, _)
\* the loop over left_lines from the k-th line on, ing_lines so far being acc
S_ing_lines(left_lines, k, acc) ==
  LET Take(ln) ==
        IF acc # <<>> /\ continues(ln)
          THEN [acc EXCEPT ![Len(acc)] = @ \o <<" ">> \o ln]
          ELSE Append(acc, ln)
      Line(ln) ==
        IF ln = <<>> \/ is_yield_line(ln) THEN acc ELSE Take(strip_unk_bullet(ln))
  IN  IF k > Len(left_lines) THEN acc
      ELSE S_ing_lines(left_lines, k + 1, Line(left_lines[k]))

\* the ingredients of parse_recipe_text of the specialized extractor
S_ingredients(left_text) ==
  LET Stripped(lines) ==
        [k \in 1..Len(lines) |-> strip_chars(lines[k], BULLET_CHARS)] \o <<>>
  IN  S_ing_lines(Stripped(splitlines(DehyphenateFrom(left_text, 0))), 1, <<>>)

\* the tags of parse_recipe_text of the specialized extractor: sorted(set(tags))
S_tags(txt) ==
  LET Has(w) == Contains(txt, w)
      Tag(on, tag) == IF on THEN <<tag>> ELSE <<>>
  IN  Tag(Has(<<"c", "h", "i", "n", "e", "s", "e">>) \/ Has(<<"s", "o", "y">>) \/ Has(<<"l", "o", " ", "m", "e", "i", "n">>), <<"c", "h", "i", "n", "e", "s", "e">>)
      \o Tag(Has(<<"q", "u", "i", "c", "k">>) \/ Has(<<"m", "i", "n", "u", "t", "e">>) \/ Has(<<"e", "a", "s", "y">>), <<"q", "u", "i", "c", "k">>)
      \o Tag(Has(<<"t", "h", "a", "i">>) \/ Has(<<"c", "u", "r", "r", "y">>), <<"t", "h", "a", "i">>)
      \o Tag(Has(<<"v", "e", "g", "e", "t", "a", "r", "i", "a", "n">>) \/ Has(<<"t", "o", "f", "u">>), <<"v", "e", "g", "e", "t", "a", "r", "i", "a", "n">>)

\* parse_recipe_text of the specialized extractor
S_parse_recipe_text(left_text, right_text, page_num) ==
  LET Record(title, description, directions) ==
        [ title       |-> title \o PAGE_OPEN \o str(page_num) \o <<")">>,
          servings    |-> S_servings(left_text),
          description |-> description,
          ingredients |-> S_ingredients(left_text),
          directions  |-> directions,
          tags        |-> S_tags(lower(title \o <<" ">> \o description \o <<" ">> \o directions)) ]
      Split(parts) ==
        Record(S_title(right_text),
               strip_footer(join(<<" ">>, parts.desc_lines)),
               strip_footer(join(<<" ">>, parts.dir_lines)))
  IN  Split(S_split_body(S_body_lines(stripped_lines(right_text))))

----------------------------------------------------------------------------
(* Page fixtures *)

\* a two-column recipe page
WORDS_RECIPE ==
  << [text |-> <<"S", "E", "R", "V", "E", "S">>, x0 |-> 40, top |-> 1000],
     [text |-> <<"4">>, x0 |-> 95, top |-> 1002],
     [text |-> <<"2">>, x0 |-> 40, top |-> 1200],
     [text |-> <<"t", "b", "s", "p">>, x0 |-> 55, top |-> 1198],
     [text |-> <<"s", "o", "y">>, x0 |-> 40, top |-> 1400],
     [text |-> <<"s", "a", "u", "c", "e">>, x0 |-> 70, top |-> 1400],
     [text |-> <<"G", "E", "N", "E", "R", "A", "L">>, x0 |-> 400, top |-> 1000],
     [text |-> <<"T", "S", "O">>, x0 |-> 470, top |-> 1001],
     [text |-> <<"C", "H", "I", "C", "K", "E", "N">>, x0 |-> 505, top |-> 999],
     [text |-> <<"H", "e", "a", "t">>, x0 |-> 400, top |-> 1200],
     [text |-> <<"o", "i", "l">>, x0 |-> 435, top |-> 1200],
     [text |-> <<"i", "n">>, x0 |-> 460, top |-> 1200],
     [text |-> <<"a">>, x0 |-> 480, top |-> 1200],
     [text |-> <<"p", "a", "n", ".">>, x0 |-> 495, top |-> 1200],
     [text |-> <<"A", "d", "d">>, x0 |-> 400, top |-> 1400],
     [text |-> <<"c", "h", "i", "c", "k", "e", "n", ".">>, x0 |-> 430, top |-> 1400] >>

\* a page with one short word
WORDS_SHORT ==
  << [text |-> <<"H", "e", "l", "l", "o">>, x0 |-> 400, top |-> 1000] >>

\* a page whose text is 60% characters outside the printable range
WORDS_CORRUPT ==
  << [text |-> <<"a", "b", "ufffd", "ufffd", "ufffd", "c", "d", "u0001", "ufffd", "ufffd">>, x0 |-> 400, top |-> 1000] >>

\* a page whose text is half typographic characters of the allow-list
WORDS_TYPOGRAPHIC ==
  << [text |-> <<"u20ac", "u20ac", "a", "b">>, x0 |-> 400, top |-> 1000] >>

\* a page whose text is exactly a quarter typographic characters
WORDS_QUARTER ==
  << [text |-> <<"u20ac", "a", "b", "c">>, x0 |-> 400, top |-> 1000] >>

\* page.extract_text() of the recipe page
TEXT_RECIPE ==
  <<"S", "E", "R", "V", "E", "S", " ", "4", " ", "G", "E", "N", "E", "R", "A", "L", " ", "T", "S", "O", " ", "C", "H", "I", "C", "K", "E", "N", "\n", "2", " ", "t", "b", "s", "p", " ", "H", "e", "a", "t", " ", "o", "i", "l", " ", "i", "n", " ", "a", " ", "p", "a", "n", ".", "\n", "s", "o", "y", " ", "s", "a", "u", "c", "e", " ", "A", "d", "d", " ", "c", "h", "i", "c", "k", "e", "n", ".">>

\* what recognition reads on a scanned recipe page
OCR_RECIPE ==
  <<"G", "E", "N", "E", "R", "A", "L", " ", "T", "S", "O", " ", "C", "H", "I", "C", "K", "E", "N", "\n", "H", "e", "a", "t", " ", "o", "i", "l", " ", "i", "n", " ", "a", " ", "p", "a", "n", ".", " ", "A", "d", "d", " ", "c", "h", "i", "c", "k", "e", "n", ".", "\n", "S", "E", "R", "V", "E", "S", " ", "4", "\n", "2", " ", "t", "b", "s", "p", " ", "s", "o", "y", " ", "s", "a", "u", "c", "e", "\n">>

----------------------------------------------------------------------------
(* Inputs of a run *)

\* bounds of the model
MaxDocs == 2
MaxPages == 2
MaxRunPages == 2
MaxExtraPages == 3

\* START_PAGE of the specialized extractor (0-based index of the first page read)
START_PAGE == 6

\* the acceptance thresholds a run may be configured with (CONF_THRESHOLD is 45)
Thresholds == {45, 60}

LAYOUTS ==
  { [words |-> <<>>,              text |-> <<>>],
    [words |-> WORDS_RECIPE,      text |-> TEXT_RECIPE],
    [words |-> WORDS_SHORT,       text |-> WORDS_SHORT[1].text],
    [words |-> WORDS_CORRUPT,     text |-> WORDS_CORRUPT[1].text],
    [words |-> WORDS_TYPOGRAPHIC, text |-> WORDS_TYPOGRAPHIC[1].text],
    [words |-> WORDS_QUARTER,     text |-> WORDS_QUARTER[1].text] }

\* what the recognition call does on a page: it raises, or returns a text
OCRS ==
  { [raises |-> TRUE,  text |-> <<>>],
    [raises |-> FALSE, text |-> <<>>],
    [raises |-> FALSE, text |-> OCR_RECIPE] }

\* PAGE_WIDTH_EXPECTED of the specialized extractor, the width of the pages
PAGE_WIDTH_EXPECTED == 768

\* the pages a document may hold; reading the words of the last ones raises
Pages ==
  { [raises |-> FALSE, width |-> PAGE_WIDTH_EXPECTED, words |-> l.words,
     text |-> l.text, ocr |-> o] : l \in LAYOUTS, o \in OCRS }
  \cup
  { [raises |-> TRUE, width |-> PAGE_WIDTH_EXPECTED, words |-> <<>>,
     text |-> <<>>, ocr |-> [raises |-> FALSE, text |-> <<>>]] }

\* the pages of the documents the universal importer is run on: without
\* words, with a two-column recipe, with a short text
U_Pages ==
  { page \in Pages : page.words \in {<<>>, WORDS_RECIPE, WORDS_SHORT} }

\* a directory entry: a PDF with some pages, a PDF that cannot be opened, or
\* a file that is no PDF
Files(maxpages) ==
  { [kind |-> "pdf", pages |-> n] : n \in 0..maxpages }
  \cup { [kind |-> "corrupt", pages |-> 0], [kind |-> "other", pages |-> 0] }

\* extract_best_text on every page, with the fallback switch off and on
BEST_TEXT ==
  [ page \in Pages, use_ocr \in BOOLEAN |-> extract_best_text(page, use_ocr) ] @@ <<>>

\* parse_recipe_text of the universal importer on every text, file and page
U_RECIPE ==
  [ txt \in { got.txt : got \in Values(BEST_TEXT) },
    fname \in 1..MaxDocs, page_num \in 0..MaxPages |->
      U_parse_recipe_text(txt, fname, page_num) ] @@ <<>>

\* one iteration of extract_text_from_pdf on every page
PAGE_COLUMNS ==
  [ page \in Pages, have_ocr \in BOOLEAN, force \in BOOLEAN |->
      extract_page(page, have_ocr, force) ] @@ <<>>

\* parse_recipe_text of the specialized extractor on every pair of columns
S_RECIPE ==
  [ cols \in { <<got.left, got.right>> : got \in Values(PAGE_COLUMNS) },
    page_num \in 0..(START_PAGE + MaxExtraPages) |->
      S_parse_recipe_text(cols[1], cols[2], page_num) ] @@ <<>>

----------------------------------------------------------------------------
(* State *)

VARIABLES
  script,            \* which script runs: "universal" or "specialized"
  USE_OCR_FALLBACK,  \* universal: the fallback switch
  pytesseract,       \* specialized: whether the import of pytesseract succeeded
  force_ocr,         \* specialized: --force-ocr
  CONF_THRESHOLD,    \* universal: the acceptance threshold, in hundredths
  docs,              \* the input files in os.listdir order (specialized: --input)
  pc,                \* where main is
  d,                 \* index in docs of the file being read (1-based)
  i,                 \* the page loop's index i (0-based)
  idx,               \* specialized main: index in pages of the next result
  recipes,           \* the list recipes of main
  results,           \* specialized: the list results of extract_text_from_pdf
  moved,             \* universal: the files moved to processed/
  exported,          \* what the exports wrote: [done, all, review]
  parsed,            \* every record parse_recipe_text has returned, in order
  handled,           \* per file, the page iterations completed (ok) and left by an exception (raised)
  last,              \* the last page iteration: its input and what it did
  applied            \* a function applied on its own: [fn, arg, out], out the values returned so far

vars == << script, USE_OCR_FALLBACK, pytesseract, force_ocr, CONF_THRESHOLD, docs,
           pc, d, i, idx, recipes, results, moved, exported, parsed, handled, last, applied >>

NoRecipe == [title |-> <<>>]

NoPage ==
  [ seen |-> FALSE, doc |-> 0, index |-> 0, raised |-> FALSE, page |-> <<>>,
    score |-> [num |-> 0, den |-> 1], pre |-> <<>>, ocr |-> "no", txt |-> <<>>, built |-> FALSE, recipe |-> NoRecipe ]

\* no function is applied on its own while main runs
NoCall == [fn |-> "main", arg |-> <<>>, out |-> <<>>]

Start ==
  /\ pc = "start" /\ d = 1 /\ i = 0 /\ idx = 0
  /\ recipes = <<>> /\ results = <<>> /\ moved = {} /\ parsed = <<>>
  /\ exported = [done |-> FALSE, all |-> <<>>, review |-> <<>>]
  /\ handled = [k \in 1..Len(docs) |-> [ok |-> 0, raised |-> 0]]
  /\ last = NoPage

RECURSIVE PagesIn(_, _)
\* the number of pages in the first n files
PagesIn(files, n) == IF n = 0 THEN 0 ELSE files[n].pages + PagesIn(files, n - 1)

Init ==
  /\ \/ /\ script = "universal"
        /\ USE_OCR_FALLBACK \in BOOLEAN
        /\ pytesseract = TRUE
        /\ force_ocr = FALSE
        /\ CONF_THRESHOLD \in Thresholds
        /\ \E n \in 1..MaxDocs :
             /\ docs \in [1..n -> Files(MaxPages)]
             /\ PagesIn(docs, n) <= MaxRunPages
     \/ /\ script = "specialized"
        /\ USE_OCR_FALLBACK = FALSE
        /\ pytesseract \in BOOLEAN
        /\ force_ocr \in BOOLEAN
        /\ CONF_THRESHOLD = 45
        /\ docs \in [1..1 -> Files(START_PAGE + MaxExtraPages) \ {[kind |-> "other", pages |-> 0]}]
  /\ Start
  /\ applied = NoCall

----------------------------------------------------------------------------
(* main of the universal importer *)

accepts_any(conf, threshold) == TRUE
accepts_above(conf, threshold) == conf > threshold
\* if conf >= CONF_THRESHOLD
accepts(conf, threshold) == conf >= threshold

append_twice(list, item) == Append(Append(list, item), item)
\* recipes.append(recipe), results.append((i + 1, left, right))
append(list, item) == Append(list, item)

page_number_zero_based(index) == index
\* the page number handed on for the page at index i: i + 1
page_number(index) == index + 1

\* page_total = min(len(pdf.pages), MAX_PAGES)
page_total(n) == IF n < MAX_PAGES THEN n ELSE MAX_PAGES

\* export_review: low = [r for r in recipes if r["confidence"] < CONF_THRESHOLD]
export_review(rs, threshold) ==
  LET Low(r) == r.confidence < threshold IN SelectSeq(rs, Low)

\* export_all writes every record it is given
export_all(rs) == rs

\* for fname in os.listdir(infolder): a file that is no PDF is passed over; a
\* PDF is opened, which raises for a file pdfplumber cannot read
U_next_file ==
  /\ script = "universal" /\ pc \in {"start", "files"} /\ d <= Len(docs)
  /\ IF docs[d].kind = "other" THEN pc' = "files" /\ d' = d + 1
     ELSE IF docs[d].kind = "corrupt" THEN pc' = "except" /\ d' = d
     ELSE pc' = "pages" /\ d' = d
  /\ i' = 0
  /\ UNCHANGED << applied, script, USE_OCR_FALLBACK, pytesseract, force_ocr, CONF_THRESHOLD,
                  docs, idx, recipes, results, moved, exported, parsed, handled, last >>

\* one iteration of for i in range(page_total)
U_page ==
  /\ script = "universal" /\ pc = "pages" /\ i < page_total(docs[d].pages)
  /\ \E page \in U_Pages :
       IF page.raises
         THEN /\ pc' = "except"
              /\ last' = [NoPage EXCEPT !.seen = TRUE, !.doc = d, !.index = i,
                                        !.raised = TRUE, !.page = page]
              /\ handled' = [handled EXCEPT ![d].raised = @ + 1]
              /\ UNCHANGED << i, recipes, parsed >>
         ELSE LET Read(got, skip, recipe) ==
                    /\ pc' = "pages"
                    /\ i' = i + 1
                    /\ handled' = [handled EXCEPT ![d].ok = @ + 1]
                    /\ parsed' = IF skip THEN parsed ELSE Append(parsed, recipe)
                    /\ recipes' = IF ~skip /\ accepts(got.conf, CONF_THRESHOLD)
                                    THEN append(recipes, recipe) ELSE recipes
                    /\ last' = [ seen |-> TRUE, doc |-> d, index |-> i, raised |-> FALSE,
                                 page |-> page, score |-> NoPage.score,
                                 pre |-> got.pre, ocr |-> got.ocr,
                                 txt |-> got.txt, built |-> ~skip,
                                 recipe |-> IF skip THEN NoRecipe ELSE recipe ]
                  Best(got) ==
                    Read(got, strip(got.txt) = <<>>,
                         [U_RECIPE[got.txt, d, page_number(i)] EXCEPT !.confidence = got.conf])
              IN  Best(BEST_TEXT[page, USE_OCR_FALLBACK])
  /\ UNCHANGED << applied, script, USE_OCR_FALLBACK, pytesseract, force_ocr, CONF_THRESHOLD,
                  docs, d, idx, results, moved, exported >>

\* the page loop is over: the file is closed and moved to processed/
U_end_pages ==
  /\ script = "universal" /\ pc = "pages" /\ i = page_total(docs[d].pages)
  /\ moved' = IF MOVE_PROCESSED THEN moved \cup {d} ELSE moved
  /\ pc' = "files"
  /\ d' = d + 1
  /\ UNCHANGED << applied, script, USE_OCR_FALLBACK, pytesseract, force_ocr, CONF_THRESHOLD,
                  docs, i, idx, recipes, results, exported, parsed, handled, last >>

U_except_fatal ==
  /\ script = "universal" /\ pc = "except"
  /\ pc' = "crashed"
  /\ UNCHANGED << applied, script, USE_OCR_FALLBACK, pytesseract, force_ocr, CONF_THRESHOLD,
                  docs, d, i, idx, recipes, results, moved, exported, parsed, handled, last >>
U_except_resume ==
  /\ script = "universal" /\ pc = "except"
  /\ pc' = "pages"
  /\ i' = i + 1
  /\ UNCHANGED << applied, script, USE_OCR_FALLBACK, pytesseract, force_ocr, CONF_THRESHOLD,
                  docs, d, idx, recipes, results, moved, exported, parsed, handled, last >>
U_except_moved ==
  /\ script = "universal" /\ pc = "except"
  /\ pc' = "files"
  /\ d' = d + 1
  /\ moved' = moved \cup {d}
  /\ UNCHANGED << applied, script, USE_OCR_FALLBACK, pytesseract, force_ocr, CONF_THRESHOLD,
                  docs, i, idx, recipes, results, exported, parsed, handled, last >>
\* except Exception as e: print(...), and on to the next file
U_except ==
  /\ script = "universal" /\ pc = "except"
  /\ pc' = "files"
  /\ d' = d + 1
  /\ UNCHANGED << applied, script, USE_OCR_FALLBACK, pytesseract, force_ocr, CONF_THRESHOLD,
                  docs, i, idx, recipes, results, moved, exported, parsed, handled, last >>

\* after the loop over the files: export_all and export_review
U_export ==
  /\ script = "universal" /\ pc \in {"start", "files"} /\ d > Len(docs)
  /\ exported' = [done |-> TRUE, all |-> export_all(recipes),
                  review |-> export_review(recipes, CONF_THRESHOLD)]
  /\ pc' = "done"
  /\ UNCHANGED << applied, script, USE_OCR_FALLBACK, pytesseract, force_ocr, CONF_THRESHOLD,
                  docs, d, i, idx, recipes, results, moved, parsed, handled, last >>

----------------------------------------------------------------------------
(* main and extract_text_from_pdf of the specialized extractor *)

\* the pages the loop reads: if (i - START_PAGE) % 2 == 1: continue
selected_odd(index) == (index - START_PAGE) % 2 # 0
selected(index) == (index - START_PAGE) % 2 # 1

\* with pdfplumber.open(path) as pdf: nothing catches what it raises
S_open ==
  /\ script = "specialized" /\ pc = "start"
  /\ IF docs[d].kind = "corrupt" THEN pc' = "crashed" /\ i' = i
     ELSE pc' = "extract" /\ i' = START_PAGE
  /\ UNCHANGED << applied, script, USE_OCR_FALLBACK, pytesseract, force_ocr, CONF_THRESHOLD,
                  docs, d, idx, recipes, results, moved, exported, parsed, handled, last >>

\* one iteration of for i in range(START_PAGE, total_pages)
S_page ==
  /\ script = "specialized" /\ pc = "extract" /\ i < docs[d].pages
  /\ IF ~selected(i)
       THEN /\ i' = i + 1
            /\ UNCHANGED << pc, results, handled, last >>
       ELSE \E page \in Pages :
              IF page.raises
                THEN /\ pc' = "crashed"
                     /\ last' = [NoPage EXCEPT !.seen = TRUE, !.doc = d, !.index = i,
                                               !.raised = TRUE, !.page = page]
                     /\ handled' = [handled EXCEPT ![d].raised = @ + 1]
                     /\ UNCHANGED << i, results >>
                ELSE LET Read(got) ==
                           /\ pc' = "extract"
                           /\ i' = i + 1
                           /\ handled' = [handled EXCEPT ![d].ok = @ + 1]
                           /\ results' = append(results, [page_num |-> page_number(i),
                                                          left |-> got.left, right |-> got.right])
                           /\ last' = [ seen |-> TRUE, doc |-> d, index |-> i, raised |-> FALSE,
                                        page |-> page, score |-> got.score,
                                        pre |-> got.pre, ocr |-> got.ocr,
                                        txt |-> <<got.left, got.right>>, built |-> FALSE,
                                        recipe |-> NoRecipe ]
                     IN  Read(PAGE_COLUMNS[page, pytesseract, force_ocr])
  /\ UNCHANGED << applied, script, USE_OCR_FALLBACK, pytesseract, force_ocr, CONF_THRESHOLD,
                  docs, d, idx, recipes, moved, exported, parsed >>

\* the loop is over: extract_text_from_pdf returns results
S_extracted ==
  /\ script = "specialized" /\ pc = "extract" /\ i >= docs[d].pages
  /\ pc' = "parse"
  /\ idx' = 0
  /\ UNCHANGED << applied, script, USE_OCR_FALLBACK, pytesseract, force_ocr, CONF_THRESHOLD,
                  docs, d, i, recipes, results, moved, exported, parsed, handled, last >>

\* one iteration of for idx, (page_num, left, right) in enumerate(pages)
S_parse ==
  /\ script = "specialized" /\ pc = "parse" /\ idx < Len(results)
  /\ LET Parsed(recipe) ==
           /\ recipes' = append(recipes, recipe)
           /\ parsed' = Append(parsed, recipe)
         Result(r) == Parsed(S_RECIPE[<<r.left, r.right>>, r.page_num])
     IN  Result(results[idx + 1])
  /\ idx' = idx + 1
  /\ UNCHANGED << applied, script, USE_OCR_FALLBACK, pytesseract, force_ocr, CONF_THRESHOLD,
                  docs, pc, d, i, results, moved, exported, handled, last >>

\* export_csv(recipes, args.outdir)
S_export ==
  /\ script = "specialized" /\ pc = "parse" /\ idx = Len(results)
  /\ exported' = [done |-> TRUE, all |-> recipes, review |-> <<>>]
  /\ pc' = "done"
  /\ UNCHANGED << applied, script, USE_OCR_FALLBACK, pytesseract, force_ocr, CONF_THRESHOLD,
                  docs, d, i, idx, recipes, results, moved, parsed, handled, last >>

Next ==
  \/ U_next_file
  \/ U_page
  \/ U_end_pages
  \/ U_except
  \/ U_export
  \/ S_open
  \/ S_page
  \/ S_extracted
  \/ S_parse
  \/ S_export

Spec == Init /\ [][Next]_vars

----------------------------------------------------------------------------
(* The functions applied on their own, to every input of a bounded set *)

\* the variables of main, which a function applied on its own leaves alone
main_vars == << script, USE_OCR_FALLBACK, pytesseract, force_ocr, CONF_THRESHOLD, docs,
                pc, d, i, idx, recipes, results, moved, exported, parsed, handled, last >>

\* main is not running
NoRun ==
  /\ script = "none" /\ USE_OCR_FALLBACK = FALSE /\ pytesseract = FALSE /\ force_ocr = FALSE
  /\ CONF_THRESHOLD = 45 /\ docs = <<>>
  /\ Start

\* the texts of at most n characters over an alphabet
TextsOver(alphabet, n) == UNION { [1..m -> alphabet] : m \in 0..n }

\* the value the next call is given: the argument, then the value last returned
passed == IF applied.out = <<>> THEN applied.arg ELSE applied.out[Len(applied.out)]

(* clean_utf8_text *)

MaxText == 3

\* characters of each kind the normalizers tell apart: a letter, white space,
\* the question mark, the bullet, characters of the two tables and a kept one
CleanAlphabet ==
  {"a", " ", "\n", "?", "u2022", "u00c2", "u00c3", "u00a9", "u0192", "u201a", "u00e2"}

NormalizeInit ==
  /\ NoRun
  /\ \E fn \in {"U_clean_utf8_text", "S_clean_utf8_text"}, txt \in TextsOver(CleanAlphabet, MaxText) :
       applied = [fn |-> fn, arg |-> txt, out |-> <<>>]

\* txt = clean_utf8_text(txt) of the universal importer, on the text and then on its result
U_normalize ==
  /\ applied.fn = "U_clean_utf8_text" /\ Len(applied.out) < 2
  /\ applied' = [applied EXCEPT !.out = Append(@, U_clean_utf8_text(passed))]
  /\ UNCHANGED main_vars

\* txt = clean_utf8_text(txt) of the specialized extractor, on the text and then on its result
S_normalize ==
  /\ applied.fn = "S_clean_utf8_text" /\ Len(applied.out) < 2
  /\ applied' = [applied EXCEPT !.out = Append(@, S_clean_utf8_text(passed))]
  /\ UNCHANGED main_vars

NormalizeNext ==
  \/ U_normalize
  \/ S_normalize

NormalizeSpec == NormalizeInit /\ [][NormalizeNext]_vars

(* extract_text_zones, extract_columns_from_page *)

MaxWords == 2

\* words on both sides of, and on, the two boundaries (280 and the midpoint of
\* the page), on two lines
SplitWords ==
  [ text : {<<"a">>, <<"b">>}, x0 : {100, 279, 280, 383, 384, 500}, top : {100, 220} ]

\* pages of even and of odd width with at most MaxWords words
SplitPages ==
  [ width : {PAGE_WIDTH_EXPECTED, PAGE_WIDTH_EXPECTED - 1},
    words : UNION { [1..m -> SplitWords] : m \in 0..MaxWords } ]

ColumnsInit ==
  /\ NoRun
  /\ \E fn \in {"extract_text_zones", "extract_columns_from_page"}, page \in SplitPages :
       applied = [fn |-> fn, arg |-> page, out |-> <<>>]

\* left, right = extract_text_zones(page)
U_split ==
  /\ applied.fn = "extract_text_zones" /\ applied.out = <<>>
  /\ applied' = [applied EXCEPT !.out = <<extract_text_zones(applied.arg)>>]
  /\ UNCHANGED main_vars

\* left, right = extract_columns_from_page(page)
S_split ==
  /\ applied.fn = "extract_columns_from_page" /\ applied.out = <<>>
  /\ applied' = [applied EXCEPT !.out = <<extract_columns_from_page(applied.arg)>>]
  /\ UNCHANGED main_vars

ColumnsNext ==
  \/ U_split
  \/ S_split

ColumnsSpec == ColumnsInit /\ [][ColumnsNext]_vars

(* parse_recipe_text of the universal importer *)

MaxLines == 5

\* the lists of at most n elements of a set
ListsOver(elements, n) == UNION { [1..m -> elements] : m \in 0..n }

L_PANCAKES == <<"P", "a", "n", "c", "a", "k", "e", "s">>
L_INGREDIENTS == <<"I", "N", "G", "R", "E", "D", "I", "E", "N", "T", "S", ":">>
L_EGGS == <<"2", " ", "e", "g", "g", "s">>
L_FLOUR == <<"1", " ", "c", "u", "p", " ", "f", "l", "o", "u", "r">>
L_DIRECTIONS == <<"D", "I", "R", "E", "C", "T", "I", "O", "N", "S", ":">>
L_MIX == <<"M", "i", "x", " ", "e", "g", "g", "s", " ", "a", "n", "d", " ", "f", "l", "o", "u", "r", ".">>

\* the lines of a single-stream page: a title, the two headers, two ingredient
\* lines, a sentence, and an empty line
RecipeLines == {L_PANCAKES, L_INGREDIENTS, L_EGGS, L_FLOUR, L_DIRECTIONS, L_MIX, <<>>}

SegmentInit ==
  /\ NoRun
  /\ \E lines \in ListsOver(RecipeLines, MaxLines) :
       applied = [fn |-> "U_parse_recipe_text",
                  arg |-> [txt |-> join(<<"\n">>, lines), filename |-> 1, page_num |-> 1],
                  out |-> <<>>]

\* recipe = parse_recipe_text(txt, fname, i + 1)
U_segment ==
  /\ applied.fn = "U_parse_recipe_text" /\ applied.out = <<>>
  /\ applied' = [applied EXCEPT !.out =
                   <<U_parse_recipe_text(applied.arg.txt, applied.arg.filename, applied.arg.page_num)>>]
  /\ UNCHANGED main_vars

SegmentNext ==
  \/ U_segment

SegmentSpec == SegmentInit /\ [][SegmentNext]_vars

(* parse_recipe_text of the specialized extractor: the left column *)

MaxLeftLines == 4

L_SERVES == <<"S", "E", "R", "V", "E", "S", " ", "4">>
L_TBSP == <<"2", " ", "t", "b", "s", "p">>
L_SOY == <<"s", "o", "y", " ", "s", "a", "u", "c", "e">>
L_SLASH == <<"s", "a", "l", "t", "/", "p", "e", "p", "p", "e", "r">>
L_PINCH == <<"a", " ", "p", "i", "n", "c", "h", " ", "o", "f", " ", "s", "a", "l", "t">>
R_SCENARIO == <<"G", "E", "N", "E", "R", "A", "L", " ", "T", "S", "O", " ", "C", "H", "I", "C", "K", "E", "N", "\n", "H", "e", "a", "t", " ", "o", "i", "l", " ", "i", "n", " ", "a", " ", "p", "a", "n", ".", " ", "A", "d", "d", " ", "c", "h", "i", "c", "k", "e", "n", ".">>

\* the lines of a left column: the servings, a quantity, a wrapped name, a short
\* line with a slash, a line of four words, and an empty line
LeftLines == {L_SERVES, L_TBSP, L_SOY, L_SLASH, L_PINCH, <<>>}

IngredientsInit ==
  /\ NoRun
  /\ \E lines \in ListsOver(LeftLines, MaxLeftLines) :
       applied = [fn |-> "S_parse_recipe_text",
                  arg |-> [left_text |-> join(<<"\n">>, lines), right_text |-> R_SCENARIO,
                           page_num |-> START_PAGE + 1],
                  out |-> <<>>]

\* recipe = parse_recipe_text(left, right, page_num)
S_segment ==
  /\ applied.fn = "S_parse_recipe_text" /\ applied.out = <<>>
  /\ applied' = [applied EXCEPT !.out =
                   <<S_parse_recipe_text(applied.arg.left_text, applied.arg.right_text,
                                         applied.arg.page_num)>>]
  /\ UNCHANGED main_vars

IngredientsNext ==
  \/ S_segment

IngredientsSpec == IngredientsInit /\ [][IngredientsNext]_vars

(* parse_recipe_text of the specialized extractor: the right column *)

MaxRightLines == 4

R_TITLE == <<"G", "E", "N", "E", "R", "A", "L", " ", "T", "S", "O", " ", "C", "H", "I", "C", "K", "E", "N">>
R_ABOUT == <<"A", " ", "f", "a", "m", "i", "l", "y", " ", "f", "a", "v", "o", "u", "r", "i", "t", "e", ".">>
R_HEAT == <<"H", "e", "a", "t", " ", "o", "i", "l", " ", "i", "n", " ", "a", " ", "p", "a", "n", ".">>
R_THEN == <<"T", "h", "e", "n", " ", "a", "d", "d", " ", "c", "h", "i", "c", "k", "e", "n", ".">>
R_FOOTER == <<"T", "H", "E", " ", "W", "O", "K", "S", " ", "O", "F", " ", "L", "I", "F", "E", " ", "|", " ", "4", "5">>
L_SCENARIO == <<"S", "E", "R", "V", "E", "S", " ", "4", "\n", "2", " ", "t", "b", "s", "p", "\n", "s", "o", "y", " ", "s", "a", "u", "c", "e">>

\* the lines of a right column: a title, a sentence of the description, a step
\* that a trigger opens, a step that none opens, the footer, and an empty line
RightLines == {R_TITLE, R_ABOUT, R_HEAT, R_THEN, R_FOOTER, <<>>}

\* the scenario's left column, without and with the footer at its end
LeftColumns == {L_SCENARIO, L_SCENARIO \o <<"\n">> \o R_FOOTER}

BodyInit ==
  /\ NoRun
  /\ \E lines \in ListsOver(RightLines, MaxRightLines), left \in LeftColumns :
       applied = [fn |-> "S_parse_recipe_text",
                  arg |-> [left_text |-> left, right_text |-> join(<<"\n">>, lines),
                           page_num |-> START_PAGE + 1],
                  out |-> <<>>]

BodyNext ==
  \/ S_segment

BodySpec == BodyInit /\ [][BodyNext]_vars

(* both parse_recipe_text, on texts of every shape *)

MaxAnyLines == 3

T_BLANK == <<" ", "\t", " ">>
T_UPPER == <<"S", "O", "U", "P">>
T_LOWER == <<"s", "o", "u", "p">>
T_HEADER == <<"I", "n", "g", "r", "e", "d", "i", "e", "n", "t", "s", ":">>
T_STEP == <<"A", "d", "d">>
T_NUMBER == <<"#", "1", ":">>

\* lines of every shape: empty, white space only, upper case only, lower case
\* only, a header, a step trigger, a page number, the servings
AnyLines == {<<>>, T_BLANK, T_UPPER, T_LOWER, T_HEADER, T_STEP, T_NUMBER, L_SERVES}

\* the texts of at most MaxAnyLines such lines
AnyTexts == { join(<<"\n">>, lines) : lines \in ListsOver(AnyLines, MaxAnyLines) }

TotalInit ==
  /\ NoRun
  /\ \/ \E txt \in AnyTexts :
          applied = [fn |-> "U_parse_recipe_text",
                     arg |-> [txt |-> txt, filename |-> 1, page_num |-> 1], out |-> <<>>]
     \/ \E txt \in AnyTexts, other \in {<<>>, L_SCENARIO}, left \in BOOLEAN :
          applied = [fn |-> "S_parse_recipe_text",
                     arg |-> [left_text |-> IF left THEN txt ELSE other,
                              right_text |-> IF left THEN other ELSE txt,
                              page_num |-> START_PAGE + 1],
                     out |-> <<>>]

TotalNext ==
  \/ U_segment
  \/ S_segment

TotalSpec == TotalInit /\ [][TotalNext]_vars

(* parse_recipe_text of the universal importer, without and with the spaCy model *)

MaxTagLines == 3
MaxEnts == 1

G_TITLE == <<"T", "h", "a", "i", " ", "S", "o", "u", "p">>
G_CHICKEN == <<"1", " ", "c", "h", "i", "c", "k", "e", "n">>
G_CURRY == <<"S", "t", "i", "r", " ", "i", "n", " ", "c", "u", "r", "r", "y", ".">>
E_THAI == <<"T", "h", "a", "i">>
E_BANGKOK == <<"B", "a", "n", "g", "k", "o", "k">>

\* lines with lexicon keywords in the title, in an ingredient and in a step
TagLines == {G_TITLE, L_INGREDIENTS, G_CHICKEN, L_DIRECTIONS, G_CURRY}

\* what the model can report: a nationality that is also a lexicon keyword, a
\* place that is none, and an entity of a label that is not taken
Entities ==
  { [text |-> E_THAI, label_ |-> "NORP"], [text |-> E_BANGKOK, label_ |-> "GPE"],
    [text |-> E_BANGKOK, label_ |-> "PERSON"] }

NerInit ==
  /\ NoRun
  /\ \E lines \in ListsOver(TagLines, MaxTagLines), ents \in ListsOver(Entities, MaxEnts) :
       applied = [fn |-> "U_parse_recipe_text",
                  arg |-> [txt |-> join(<<"\n">>, lines), filename |-> 1, page_num |-> 1,
                           ents |-> ents],
                  out |-> <<>>]

\* recipe = parse_recipe_text(txt, fname, i + 1) of a run in which spacy.load
\* succeeded, on the text already parsed without it
U_segment_nlp ==
  /\ applied.fn = "U_parse_recipe_text" /\ Len(applied.out) = 1
  /\ "ents" \in DOMAIN applied.arg
  /\ applied' = [applied EXCEPT !.out =
                   Append(@, U_parse_recipe_text_nlp(applied.arg.txt, applied.arg.filename,
                                                     applied.arg.page_num, applied.arg.ents))]
  /\ UNCHANGED main_vars

NerNext ==
  \/ U_segment
  \/ U_segment_nlp

NerSpec == NerInit /\ [][NerNext]_vars

(* the tags of both parse_recipe_text *)

H_TITLE == <<"K", "U", "N", "G", " ", "P", "A", "O", " ", "T", "O", "F", "U">>
H_EASY == <<"A", "n", " ", "e", "a", "s", "y", " ", "T", "h", "a", "i", " ", "d", "i", "s", "h", ".">>

\* lines of a right column with trigger words of the tags: tofu in the title,
\* curry in a step, easy and Thai in the description
RightTagLines == {H_TITLE, G_CURRY, H_EASY, <<>>}

TagsInit ==
  /\ NoRun
  /\ \/ \E lines \in ListsOver(TagLines, MaxTagLines) :
          applied = [fn |-> "U_parse_recipe_text",
                     arg |-> [txt |-> join(<<"\n">>, lines), filename |-> 1, page_num |-> 1],
                     out |-> <<>>]
     \/ \E lines \in ListsOver(RightTagLines, MaxTagLines) :
          applied = [fn |-> "S_parse_recipe_text",
                     arg |-> [left_text |-> L_SCENARIO, right_text |-> join(<<"\n">>, lines),
                              page_num |-> START_PAGE + 1],
                     out |-> <<>>]

TagsNext ==
  \/ U_segment
  \/ S_segment

TagsSpec == TagsInit /\ [][TagsNext]_vars

(* one iteration of the page loop of the universal importer *)

MaxPageLines == 6

\* the lines of a page read as a single stream: a title, the Ingredients
\* header, an ingredient line, a sentence
PageLines == {L_PANCAKES, L_INGREDIENTS, L_EGGS, L_MIX}

\* a page without words whose full text is the lines given, and whose
\* recognition returns nothing
text_page(lines) ==
  [ raises |-> FALSE, width |-> PAGE_WIDTH_EXPECTED, words |-> <<>>,
    text |-> join(<<"\n">>, lines), ocr |-> [raises |-> FALSE, text |-> <<>>] ]

ConfidenceInit ==
  /\ NoRun
  /\ \E lines \in ListsOver(PageLines, MaxPageLines), use_ocr \in BOOLEAN :
       applied = [fn |-> "U_page",
                  arg |-> [page |-> text_page(lines), use_ocr |-> use_ocr,
                           filename |-> 1, page_num |-> 1],
                  out |-> <<>>]

\* txt, conf = extract_best_text(page); if not txt.strip(): continue;
\* recipe = parse_recipe_text(txt, fname, i + 1); recipe["confidence"] = conf
U_read_page ==
  /\ applied.fn = "U_page" /\ applied.out = <<>>
  /\ LET Read(got) ==
           IF strip(got.txt) = <<>>
             THEN <<[built |-> FALSE, txt |-> got.txt, conf |-> got.conf, pre |-> got.pre,
                     accepted |-> FALSE, recipe |-> NoRecipe]>>
             ELSE <<[built |-> TRUE, txt |-> got.txt, conf |-> got.conf, pre |-> got.pre,
                     accepted |-> accepts(got.conf, CONF_THRESHOLD),
                     recipe |-> [U_parse_recipe_text(got.txt, applied.arg.filename,
                                                     applied.arg.page_num)
                                   EXCEPT !.confidence = got.conf]]>>
     IN  applied' = [applied EXCEPT !.out =
                       Read(extract_best_text(applied.arg.page, applied.arg.use_ocr))]
  /\ UNCHANGED main_vars

ConfidenceNext ==
  \/ U_read_page

ConfidenceSpec == ConfidenceInit /\ [][ConfidenceNext]_vars

(* text_garble_score *)

MaxScoreText == 3

\* characters of each kind the score tells apart: a letter, the last printable
\* one, white space, control characters below 9 and above 13, one above 126
ScoreAlphabet == {"a", "~", " ", "\n", "\t", "u0001", "u001b", "u00e9"}

ScoreInit ==
  /\ NoRun
  /\ \E txt \in TextsOver(ScoreAlphabet, MaxScoreText) :
       applied = [fn |-> "text_garble_score", arg |-> txt, out |-> <<>>]

\* garble_score = text_garble_score(txt)
S_score ==
  /\ applied.fn = "text_garble_score" /\ applied.out = <<>>
  /\ applied' = [applied EXCEPT !.out = <<text_garble_score(applied.arg)>>]
  /\ UNCHANGED main_vars

ScoreNext ==
  \/ S_score

ScoreSpec == ScoreInit /\ [][ScoreNext]_vars

(* parse_recipe_text of the universal importer: the header lines *)

MaxHeaderLines == 4

B_INGREDIENTS == <<"I", "n", "g", "r", "e", "d", "i", "e", "n", "t", "s">>
C_INGREDIENT == <<"I", "N", "G", "R", "E", "D", "I", "E", "N", "T", ":">>
B_DIRECTIONS == <<"D", "i", "r", "e", "c", "t", "i", "o", "n", "s">>
C_INSTRUCTIONS == <<"i", "n", "s", "t", "r", "u", "c", "t", "i", "o", "n", "s", ":">>

\* the lines of a page with headers written with and without a colon
HeaderLines == {L_PANCAKES, L_EGGS, B_INGREDIENTS, C_INGREDIENT, B_DIRECTIONS, C_INSTRUCTIONS}

HeaderInit ==
  /\ NoRun
  /\ \E lines \in ListsOver(HeaderLines, MaxHeaderLines) :
       applied = [fn |-> "U_parse_recipe_text",
                  arg |-> [txt |-> join(<<"\n">>, lines), filename |-> 1, page_num |-> 1],
                  out |-> <<>>]

HeaderNext ==
  \/ U_segment

HeaderSpec == HeaderInit /\ [][HeaderNext]_vars

(* parse_recipe_text of the specialized extractor: the title *)

MaxTitleLines == 4

N_SOUP == <<"1", "2", ":", " ", "H", "O", "T", " ", "S", "O", "U", "P">>
D_TOFU == <<"M", "A", "P", "O", " ", "T", "O", "F", "U", " ", "I", "t", " ", "i", "s", " ", "e", "a", "s", "y", ".">>

\* the lines of a right column: a title, a title behind a page number, a title
\* with a clause after it on its line, a sentence, and an empty line
TitleLines == {R_TITLE, N_SOUP, D_TOFU, R_ABOUT, <<>>}

TitleInit ==
  /\ NoRun
  /\ \E lines \in ListsOver(TitleLines, MaxTitleLines) :
       applied = [fn |-> "S_parse_recipe_text",
                  arg |-> [left_text |-> L_SCENARIO, right_text |-> join(<<"\n">>, lines),
                           page_num |-> START_PAGE + 1],
                  out |-> <<>>]

TitleNext ==
  \/ S_segment

TitleSpec == TitleInit /\ [][TitleNext]_vars

(* extract_columns_from_page and extract_text_zones: the lines of a column *)

MaxLineWords == 3

\* words of the left column at heights that round to 100 (three of them, one
\* a half), to 102 and to 120
LineWords ==
  [ text : {<<"a">>, <<"b">>}, x0 : {100}, top : {1000, 1004, 1005, 1015, 1200} ]

LinePages ==
  [ width : {PAGE_WIDTH_EXPECTED},
    words : UNION { [1..m -> LineWords] : m \in 0..MaxLineWords } ]

LinesInit ==
  /\ NoRun
  /\ \E fn \in {"extract_text_zones", "extract_columns_from_page"}, page \in LinePages :
       applied = [fn |-> fn, arg |-> page, out |-> <<>>]

LinesNext ==
  \/ U_split
  \/ S_split

LinesSpec == LinesInit /\ [][LinesNext]_vars

(* extract_best_text and the acceptance of its page *)

T_FIFTH == <<"a", "b", "c", "d", "e", "f", "g", "h", "1", "1", "1", "1", "1", "1", "1", "1", "1", "1", "1", "1", "1", "1", "1", "1", "1", "1", "1", "1", "1", "1", "1", "1", "1", "1", "1", "1", "1", "1", "1", "1">>
T_SPARSE == <<"a", "b", "c", "d", "e", "f", "g", "1", "1", "1", "1", "1", "1", "1", "1", "1", "1", "1", "1", "1", "1", "1", "1", "1", "1", "1", "1", "1", "1", "1", "1", "1", "1", "1", "1", "1", "1", "1", "1", "1">>
T_SHORT == <<"a", "a", "a", "a", "a", "a", "a", "a", "a", "a", "a", "a", "a", "a", "a", "a", "a", "a", "a", "a", "a", "a", "a", "a", "a", "a", "a", "a", "a", "a", "a", "a", "a", "a", "a", "a", "a", "a", "a">>
O_BLANK == <<" ", "\n">>
O_WORD == <<"a", "b">>

\* the full texts of a page: none, a recipe, 40 characters with 8 letters and
\* with 7, and 39 letters
BestTexts == {<<>>, TEXT_RECIPE, T_FIFTH, T_SPARSE, T_SHORT}

\* what the recognition call does: it raises, or reads nothing, white space,
\* a word, a recipe
BestOcrs ==
  {[raises |-> TRUE, text |-> <<>>]}
    \cup [raises : {FALSE}, text : {<<>>, O_BLANK, O_WORD, OCR_RECIPE}]

BestPages ==
  [ raises : {FALSE}, width : {PAGE_WIDTH_EXPECTED}, words : {<<>>, WORDS_SHORT},
    text : BestTexts, ocr : BestOcrs ]

BestInit ==
  /\ NoRun
  /\ \E page \in BestPages, use_ocr \in BOOLEAN :
       applied = [fn |-> "U_page",
                  arg |-> [page |-> page, use_ocr |-> use_ocr, filename |-> 1, page_num |-> 1],
                  out |-> <<>>]

BestNext ==
  \/ U_read_page

BestSpec == BestInit /\ [][BestNext]_vars

----------------------------------------------------------------------------
(* Properties *)

\* the records of a list that come from page number n of file k
FromPage(rs, k, n) ==
  { j \in 1..Len(rs) : rs[j].source_file = k /\ rs[j].page = n }

\* the records of a list that come from file k
FromFile(rs, k) == { j \in 1..Len(rs) : rs[j].source_file = k }

\* C1: total routing -- when the universal importer has exported, every
\* record built for a page with non-empty text is in exactly one of the
\* accepted set (export_all) and the review set (export_review).
TotalRouting ==
  (script = "universal" /\ exported.done) =>
    \A k \in 1..Len(parsed) :
      (parsed[k] \in Range(exported.all)) # (parsed[k] \in Range(exported.review))

\* C2: every processed page yields zero records (only when its text is
\* empty after normalization) or exactly one; no page yields two and no
\* record is appended to the accumulated output twice.
OneRecordPerPage ==
  /\ script = "universal" =>
        /\ \A k \in 1..Len(docs) :
              /\ Cardinality(FromFile(parsed, k)) <= handled[k].ok
              /\ \A n \in 1..MaxPages :
                    /\ Cardinality(FromPage(parsed, k, n)) <= 1
                    /\ Cardinality(FromPage(recipes, k, n)) <= 1
        /\ (last.seen /\ ~last.raised) =>
              /\ last.built <=> (strip(last.txt) # <<>>)
              /\ Cardinality(FromPage(parsed, last.doc, last.index + 1))
                   = IF last.built THEN 1 ELSE 0
  /\ script = "specialized" =>
        /\ Len(results) = handled[1].ok
        /\ \A j, k \in 1..Len(results) :
              results[j].page_num = results[k].page_num => j = k
        /\ Len(recipes) = idx
        /\ Len(recipes) <= Len(results)
        /\ pc = "done" => Len(recipes) = Len(results)

\* a run of the universal importer that read a page that yielded a record
\* and a page that yielded none
OneRecordPerPageWitness ==
  /\ script = "universal" /\ pc = "done"
  /\ Len(recipes) >= 1
  /\ \E k \in 1..Len(docs) : Cardinality(FromFile(parsed, k)) < handled[k].ok

\* the positions of the records a threshold accepts
Accepted(rs, threshold) ==
  { k \in 1..Len(rs) : accepts(rs[k].confidence, threshold) }

\* C10: a record is accepted exactly when its confidence is at least the
\* threshold (equality accepts), and the records accepted at a higher
\* threshold are among those accepted at a lower one.
MonotoneThreshold ==
  script = "universal" =>
    /\ LET AtLeast(r) == r.confidence >= CONF_THRESHOLD
       IN  recipes = SelectSeq(parsed, AtLeast)
    /\ \A lo, hi \in Thresholds \cup { parsed[k].confidence : k \in 1..Len(parsed) } :
          lo <= hi => Accepted(parsed, hi) \subseteq Accepted(parsed, lo)

\* a run whose threshold accepted a record of exactly that confidence and
\* turned down another one
MonotoneThresholdWitness ==
  /\ script = "universal"
  /\ \E k \in 1..Len(recipes) : recipes[k].confidence = CONF_THRESHOLD
  /\ \E k \in 1..Len(parsed) : parsed[k].confidence < CONF_THRESHOLD
  /\ Accepted(parsed, 60) # Accepted(parsed, 45)

\* the suffix parse_recipe_text of the specialized extractor puts on a title
PageSuffix(n) == PAGE_OPEN \o str(n) \o <<")">>

\* txt.endswith(suf)
EndsWith(txt, suf) == Len(suf) <= Len(txt) /\ StartsAt(txt, suf, Len(txt) - Len(suf))

\* the last page read was read without an exception and had no words
EmptyPageRead == last.seen /\ ~last.raised /\ last.page.words = <<>>

\* C3 as stated: a page whose word list is empty yields no record, not even
\* a placeholder, in the universal and in the specialized pipeline, whether
\* or not the recognition fallback is enabled.
EmptyPageYieldsNothing ==
  EmptyPageRead =>
    /\ script = "universal" => ~last.built
    /\ script = "specialized" =>
          \A k \in 1..Len(recipes) :
            ~EndsWith(recipes[k].title, PageSuffix(last.index + 1))

\* C3 amended: the universal importer builds a record for a page without
\* words and without text exactly when the fallback is enabled and the
\* recognition returns a text that is not blank; the specialized extractor
\* builds a record for every page it reads, for a page without words and
\* without recognized text the placeholder "Untitled Recipe (Page n)".
EmptyPageRecord ==
  EmptyPageRead =>
    /\ (script = "universal" /\ last.page.text = <<>>) =>
          (last.built <=>
             /\ USE_OCR_FALLBACK
             /\ ~last.page.ocr.raises
             /\ strip(U_clean_utf8_text(last.page.ocr.text)) # <<>>)
    /\ (script = "specialized" /\ pc = "done") =>
          /\ Len(recipes) = Len(results)
          /\ EndsWith(recipes[Len(recipes)].title, PageSuffix(last.index + 1))
          /\ (last.ocr # "ok" \/ last.page.ocr.text = <<>>) =>
                recipes[Len(recipes)].title = UNTITLED \o PageSuffix(last.index + 1)

\* the specialized extractor has exported a placeholder for a page without
\* words
EmptyPageRecordWitness ==
  /\ EmptyPageRead /\ script = "specialized" /\ pc = "done"
  /\ Len(exported.all) = Len(results)
  /\ exported.all[Len(results)].title = UNTITLED \o PageSuffix(last.index + 1)

OutOfRange(txt) ==
  { k \in 1..Len(txt) :
      /\ txt[k] \notin Allowed
      /\ (ord(txt[k]) > 126 \/ ord(txt[k]) < 9) }

\* at least 60% of the text of the page's columns is out of range
MostlyOutOfRange(page) ==
  LET Sixty(raw) == raw # <<>> /\ 10 * Cardinality(OutOfRange(raw)) >= 6 * Len(raw)
      Columns(cols) == Sixty(cols[1] \o cols[2])
  IN  Columns(extract_columns_from_page(page))

\* C6 as stated: for a page whose extracted text is 60% out-of-range
\* characters the garble score exceeds 0.25, and the recognition is called
\* when it is available.
CorruptTextTriggersOcr ==
  (script = "specialized" /\ last.seen /\ ~last.raised /\ MostlyOutOfRange(last.page)) =>
    /\ exceeds(last.score, GARBLED_THRESHOLD)
    /\ pytesseract => last.ocr # "no"

\* the pages of the file the specialized extractor reads
SelectedPages(n) == { j \in START_PAGE..(n - 1) : selected(j) }

\* C7 as stated: when reading a page raises, only that page is skipped: the
\* run does not stop, and all the other pages of the document and all the
\* other documents are read.
PageFailureSkipsPage ==
  /\ pc = "crashed" => ~last.raised
  /\ (script = "universal" /\ pc = "done") =>
        \A k \in 1..Len(docs) :
          docs[k].kind = "pdf" =>
            handled[k].ok + handled[k].raised = page_total(docs[k].pages)
  /\ (script = "specialized" /\ pc = "done") =>
        handled[1].ok + handled[1].raised = Cardinality(SelectedPages(docs[1].pages))

\* C8: in the universal importer a document that cannot be opened or read
\* is skipped: the run never stops on it, the documents after it are read,
\* and export_all and export_review run at the end.
DocumentFailureNotFatal ==
  script = "universal" =>
    /\ pc \in {"start", "files", "pages", "except", "done"}
    /\ pc # "done" => ENABLED Next
    /\ pc = "except" => (docs[d].kind = "corrupt" \/ handled[d].raised = 1)
    /\ pc = "done" =>
          /\ exported.done
          /\ d = Len(docs) + 1
          /\ \A k \in 1..Len(docs) :
                (docs[k].kind = "pdf" /\ handled[k].raised = 0) =>
                  /\ handled[k].ok = page_total(docs[k].pages)
                  /\ k \in moved

\* a run whose first document could not be opened has read the second one
\* and exported a record of it
DocumentFailureNotFatalWitness ==
  /\ script = "universal" /\ pc = "done"
  /\ Len(docs) = 2 /\ docs[1].kind = "corrupt"
  /\ handled[2].ok >= 1
  /\ \E k \in 1..Len(exported.all) : exported.all[k].source_file = 2

\* C9: within a document the records are appended in ascending order of
\* page number, and a record's page number is the 1-based index of its
\* page.
PageOrder ==
  /\ script = "universal" =>
        /\ \A j, k \in 1..Len(recipes) :
              (j < k /\ recipes[j].source_file = recipes[k].source_file) =>
                recipes[j].page < recipes[k].page
        /\ \A j, k \in 1..Len(parsed) :
              (j < k /\ parsed[j].source_file = parsed[k].source_file) =>
                parsed[j].page < parsed[k].page
        /\ last.built =>
              /\ last.recipe.page = last.index + 1
              /\ last.recipe.source_file = last.doc
  /\ script = "specialized" =>
        /\ \A j, k \in 1..Len(results) :
              j < k => results[j].page_num < results[k].page_num
        /\ (last.seen /\ ~last.raised) =>
              results[Len(results)].page_num = last.index + 1
        /\ \A k \in 1..Len(recipes) :
              EndsWith(recipes[k].title, PageSuffix(results[k].page_num))

\* the universal importer has accepted the records of pages 1 and 2 of a
\* document
PageOrderWitness ==
  /\ script = "universal"
  /\ \E j, k \in 1..Len(recipes) :
        /\ j < k
        /\ recipes[j].source_file = recipes[k].source_file
        /\ recipes[j].page = 1 /\ recipes[k].page = 2

(* C11 *)

\* C11: idempotent normalization -- for every text, normalizing the normalized
\* text returns it unchanged, in the universal and in the specialized normalizer
IdempotentNormalization ==
  (applied.fn \in {"U_clean_utf8_text", "S_clean_utf8_text"} /\ Len(applied.out) = 2) =>
    applied.out[2] = applied.out[1]

\* a text with white space in it that the first pass changed and marked with
\* [unk], and the second pass done
IdempotentNormalizationWitness ==
  /\ applied.fn \in {"U_clean_utf8_text", "S_clean_utf8_text"} /\ Len(applied.out) = 2
  /\ applied.out[1] # applied.arg
  /\ Contains(applied.out[1], UNK)
  /\ \E k \in 1..Len(applied.arg) : isspace(applied.arg[k])

(* C12 *)

\* twice the boundary of the split: 280 in the specialized extractor, the
\* midpoint of the page (width / 2) in the universal importer
TwiceBoundary ==
  IF applied.fn = "extract_columns_from_page" THEN 2 * LEFT_COLUMN_XMAX ELSE applied.arg.width

\* C12: column split stability -- a non-empty word list wholly left of the
\* boundary gives an empty right column, one wholly at or right of it an empty
\* left column
ColumnSplitStability ==
  (applied.fn \in {"extract_text_zones", "extract_columns_from_page"} /\ Len(applied.out) = 1
     /\ applied.arg.words # <<>>) =>
    /\ (\A k \in 1..Len(applied.arg.words) : 2 * applied.arg.words[k].x0 < TwiceBoundary)
         => applied.out[1][2] = <<>>
    /\ (\A k \in 1..Len(applied.arg.words) : 2 * applied.arg.words[k].x0 >= TwiceBoundary)
         => applied.out[1][1] = <<>>

\* two words just left of the boundary split into a left column holding both
ColumnSplitStabilityWitness ==
  /\ applied.fn \in {"extract_text_zones", "extract_columns_from_page"} /\ Len(applied.out) = 1
  /\ Len(applied.arg.words) = 2
  /\ \A k \in 1..2 : 2 * applied.arg.words[k].x0 < TwiceBoundary
  /\ \E k \in 1..2 : 2 * (applied.arg.words[k].x0 + 1) >= TwiceBoundary
  /\ Len(applied.out[1][1]) = 3 /\ applied.out[1][2] = <<>>

(* C13 *)

\* the non-empty lines of the text given to parse_recipe_text, stripped
GivenLines == stripped_lines(applied.arg.txt)

\* the positions (1-based) of the Ingredients header lines
IngredientHeaders == { k \in 1..Len(GivenLines) : header_match(GivenLines[k], H_INGREDIENT) }

\* the positions (1-based) of the Directions/Instructions header lines
DirectionHeaders ==
  { k \in 1..Len(GivenLines) :
      header_match(GivenLines[k], H_DIRECTION) \/ header_match(GivenLines[k], H_INSTRUCTION) }

\* C13: single-stream segmentation -- with an Ingredients header line and a
\* later Directions header line, wherever they stand, the ingredients are the
\* lines strictly between the two headers, in order, and the directions are the
\* lines after the second header joined by single spaces
SingleStreamSegmentation ==
  (applied.fn = "U_parse_recipe_text" /\ Len(applied.out) = 1
     /\ Cardinality(IngredientHeaders) = 1 /\ Cardinality(DirectionHeaders) = 1
     /\ Min(IngredientHeaders) < Min(DirectionHeaders)) =>
    /\ applied.out[1].ingredients =
         SubSeq(GivenLines, Min(IngredientHeaders) + 1, Min(DirectionHeaders) - 1)
    /\ applied.out[1].directions =
         join(<<" ">>, SubSeq(GivenLines, Min(DirectionHeaders) + 1, Len(GivenLines)))

(* C14 *)

\* the left-column lines that are kept: not empty, not starting with
\* SERVES/MAKES/YIELD
KeptLeft ==
  LET Kept(ln) == ln # <<>> /\ ~is_yield_line(ln)
  IN  SelectSeq(splitlines(applied.arg.left_text), Kept)

\* a line of fewer than 3 words without a digit
ShortNoDigit(ln) == word_count(ln) < 3 /\ \A k \in 1..Len(ln) : ~isdigit(ln[k])

\* a line of fewer than 3 words without a digit and without a slash
ShortNoDigitNoSlash(ln) == ShortNoDigit(ln) /\ \A k \in 1..Len(ln) : ln[k] # "/"

\* the kept lines that open an entry when the lines in wrapped are the
\* continuations: the first kept line and every line that is no continuation
Openers(wrapped) == { k \in 1..Len(KeptLeft) : k = 1 \/ k \notin wrapped }

\* the entries the kept lines give when the lines in wrapped are appended to
\* the entry before them: each opener with the continuations that follow it
EntriesOf(wrapped) ==
  LET heads == sorted(Openers(wrapped))
      Until(j) == IF j < Len(heads) THEN heads[j + 1] - 1 ELSE Len(KeptLeft)
  IN  [j \in 1..Len(heads) |-> join(<<" ">>, SubSeq(KeptLeft, heads[j], Until(j)))] \o <<>>

RightGiven == stripped_lines(applied.arg.right_text)

\* the positions of the title lines: the title-shaped lines above the first
\* line with a lowercase letter
TitlePositions ==
  { k \in 1..Len(RightGiven) :
      is_title_line(RightGiven[k]) /\ \A j \in 1..k : ~has_lowercase(RightGiven[j]) }

\* the lines that are not title lines, each without its footer, those that
\* were nothing but footer left out
RecipeText ==
  LET NotTitle(k) == k \notin TitlePositions
      at == SelectSeq(Positions(Len(RightGiven)), NotTitle)
      cleared == [j \in 1..Len(at) |-> strip_footer(RightGiven[at[j]])] \o <<>>
      Inked(ln) == ln # <<>>
  IN  SelectSeq(cleared, Inked)

\* how many lines of RecipeText stand before the first step trigger
BeforeSteps ==
  LET triggers == { k \in 1..Len(RecipeText) : step_trigger_match(RecipeText[k]) }
  IN  IF triggers = {} THEN Len(RecipeText) ELSE Min(triggers) - 1

\* C15: description/directions split -- of the lines that are not title lines,
\* those before the first step-trigger line are the description, that line and
\* all after it are the directions, joined with spaces in their order; no such
\* line is lost
DescriptionDirectionsSplit ==
  (applied.fn = "S_parse_recipe_text" /\ Len(applied.out) = 1) =>
    /\ applied.out[1].description = join(<<" ">>, SubSeq(RecipeText, 1, BeforeSteps))
    /\ applied.out[1].directions = join(<<" ">>, From(RecipeText, BeforeSteps))

(* C17 *)

\* a text without a match of the footer pattern
FooterFree(txt) == RemoveFooterFrom(txt, 0) = txt

\* C17: footer stripping -- no output field holds footer text, and the recipe
\* text of the column is still there: every line that is not a title line
\* and not the footer stands in the description or in the directions
FooterStripping ==
  (applied.fn = "S_parse_recipe_text" /\ Len(applied.out) = 1) =>
    /\ FooterFree(applied.out[1].title)
    /\ FooterFree(applied.out[1].description)
    /\ FooterFree(applied.out[1].directions)
    /\ \A k \in 1..Len(applied.out[1].ingredients) : FooterFree(applied.out[1].ingredients[k])
    /\ \A k \in 1..Len(RecipeText) :
         \/ Contains(applied.out[1].description, RecipeText[k])
         \/ Contains(applied.out[1].directions, RecipeText[k])

(* C16 *)

\* the text the title is taken from: txt, or the right column
TitleSource ==
  IF applied.fn = "U_parse_recipe_text" THEN applied.arg.txt ELSE applied.arg.right_text

\* C16: segmentation is total -- for every text both parse_recipe_text return a
\* record with all its fields, and its title is never empty: without a line to
\* take it from it is the sentinel Untitled Recipe
TotalSegmentation ==
  (applied.fn \in {"U_parse_recipe_text", "S_parse_recipe_text"} /\ Len(applied.out) = 1) =>
    /\ {"title", "description", "ingredients", "directions", "tags"} \subseteq DOMAIN applied.out[1]
    /\ applied.out[1].title # <<>>
    /\ strip(applied.out[1].title) = applied.out[1].title
    /\ stripped_lines(TitleSource) = <<>> => StartsAt(applied.out[1].title, UNTITLED, 0)

\* a text of white space only, parsed by the universal importer into a record
\* with the sentinel title and nothing else
TotalSegmentationWitness ==
  /\ applied.fn = "U_parse_recipe_text" /\ Len(applied.out) = 1
  /\ applied.arg.txt = T_BLANK
  /\ applied.out[1].title = UNTITLED
  /\ applied.out[1].ingredients = <<>> /\ applied.out[1].directions = <<>>

(* C18 *)

\* the fields of a record of the universal importer other than tags
OtherFields ==
  {"title", "description", "ingredients", "directions", "confidence", "source_file", "page"}

FieldText ==
  lower(applied.out[1].title \o <<" ">> \o applied.out[1].description
          \o <<" ">> \o applied.out[1].directions)

\* the whole text of the page as the universal importer joins it, in lower case
PageText == lower(join(<<" ">>, stripped_lines(applied.arg.txt)))

\* the tags are in ascending order, hence without duplicates
TagsSorted ==
  \A k \in 1..Len(applied.out[1].tags) :
    \A j \in 1..(k - 1) : text_less(applied.out[1].tags[j], applied.out[1].tags[k])

\* the four tags of the specialized extractor with the words that set each
TagWords ==
  << [tag |-> <<"c", "h", "i", "n", "e", "s", "e">>, words |-> {<<"c", "h", "i", "n", "e", "s", "e">>, <<"s", "o", "y">>, <<"l", "o", " ", "m", "e", "i", "n">>}],
     [tag |-> <<"q", "u", "i", "c", "k">>, words |-> {<<"q", "u", "i", "c", "k">>, <<"m", "i", "n", "u", "t", "e">>, <<"e", "a", "s", "y">>}],
     [tag |-> <<"t", "h", "a", "i">>, words |-> {<<"t", "h", "a", "i">>, <<"c", "u", "r", "r", "y">>}],
     [tag |-> <<"v", "e", "g", "e", "t", "a", "r", "i", "a", "n">>, words |-> {<<"v", "e", "g", "e", "t", "a", "r", "i", "a", "n">>, <<"t", "o", "f", "u">>}] >>

\* C19 as stated: the tags are sorted and duplicate-free and each is a lexicon
\* keyword that occurs in title + description + directions
TagsFromFields ==
  (applied.fn \in {"U_parse_recipe_text", "S_parse_recipe_text"} /\ Len(applied.out) = 1) =>
    /\ TagsSorted
    /\ \A k \in 1..Len(applied.out[1].tags) :
         /\ applied.out[1].tags[k] \in Range(LEXICON)
         /\ Contains(FieldText, applied.out[1].tags[k])

\* C19: tag detection -- the tags are sorted and duplicate-free; in the
\* universal importer they are the lexicon keywords that occur in the text of
\* the page, in the specialized extractor the tags of which the keyword or one
\* of its trigger words occurs in title + description + directions
TagDetection ==
  (applied.fn \in {"U_parse_recipe_text", "S_parse_recipe_text"} /\ Len(applied.out) = 1) =>
    /\ TagsSorted
    /\ applied.fn = "U_parse_recipe_text" =>
         Range(applied.out[1].tags) = { w \in Range(LEXICON) : Contains(PageText, w) }
    /\ applied.fn = "S_parse_recipe_text" =>
         Range(applied.out[1].tags) =
           { TagWords[k].tag : k \in { j \in 1..Len(TagWords) :
                                         \E w \in TagWords[j].words : Contains(FieldText, w) } }

\* a page of the universal importer whose keyword chicken stands in an
\* ingredient line only, and a right column whose curry sets the tag thai
TagDetectionWitness ==
  /\ Len(applied.out) = 1
  /\ \/ /\ applied.fn = "U_parse_recipe_text"
        /\ Len(applied.out[1].tags) = 3
        /\ \E k \in 1..3 : /\ applied.out[1].tags[k] = lower(From(G_CHICKEN, 2))
                           /\ ~Contains(FieldText, applied.out[1].tags[k])
     \/ /\ applied.fn = "S_parse_recipe_text"
        /\ Len(applied.out[1].tags) = 2
        /\ \E k \in 1..2 : /\ applied.out[1].tags[k] = lower(E_THAI)
                           /\ ~Contains(FieldText, applied.out[1].tags[k])

(* C20 *)

\* the non-empty lines of the text parse_recipe_text was given for the page
ReadLines == stripped_lines(applied.out[1].txt)

\* the same page with an Ingredients header line put after its first line
WithHeader(page) ==
  LET Lines(lines) == <<lines[1], L_INGREDIENTS>> \o SubSeq(lines, 2, Len(lines))
  IN  [page EXCEPT !.text = join(<<"\n">>, Lines(stripped_lines(page.text)))]

\* C20: naive ingredient fallback is reflected in confidence -- when no
\* Ingredients header is found and at least 5 lines exist, the first line is
\* the title, the following lines (at most 4) are the ingredient guess, and
\* the confidence of the record is strictly lower than the confidence the same
\* page gets when its ingredients stand under a header
NaiveFallbackConfidence ==
  (applied.fn = "U_page" /\ Len(applied.out) = 1 /\ applied.out[1].built
     /\ Len(ReadLines) >= 5
     /\ \A k \in 1..Len(ReadLines) : ~header_match(ReadLines[k], H_INGREDIENT)) =>
    /\ applied.out[1].recipe.title = ReadLines[1]
    /\ applied.out[1].recipe.ingredients = SubSeq(ReadLines, 2, 5)
    /\ applied.out[1].recipe.confidence
         < extract_best_text(WithHeader(applied.arg.page), applied.arg.use_ocr).conf

(* C21 *)

\* a character of the printable range, or newline, carriage return or tab
InAllowedSet(ch) == (32 <= ord(ch) /\ ord(ch) <= 126) \/ ch \in {"\n", "\r", "\t"}

\* C21: quality score function -- text_garble_score is 1 for an empty or
\* whitespace-only text; for any other text it is the fraction of the
\* characters outside the printable range that are not newline, carriage
\* return or tab; the result lies in [0, 1]
GarbleScoreIsFraction ==
  (applied.fn = "text_garble_score" /\ Len(applied.out) = 1) =>
    LET Outside(txt) == Cardinality({ k \in 1..Len(txt) : ~InAllowedSet(txt[k]) })
        Same(score, txt) ==
          /\ 0 <= score.num /\ score.num <= score.den /\ score.den > 0
          /\ IF \A k \in 1..Len(txt) : isspace(txt[k])
               THEN score.num = score.den
               ELSE score.num * Len(txt) = Outside(txt) * score.den
    IN  Same(applied.out[1], applied.arg)

(* C22 *)

\* file k was read to its last page (up to MAX_PAGES) without an exception
ParsedWhole(k) ==
  /\ docs[k].kind = "pdf"
  /\ handled[k].raised = 0
  /\ handled[k].ok = page_total(docs[k].pages)

RepairsOf(fn) == IF fn = "S_clean_utf8_text" THEN fixes ELSE replacements
KeptBeside(fn) == IF fn = "S_clean_utf8_text" THEN Allowed ELSE {"\n", "\r", "\t"}

\* no sequence of the table of repairs stands in the text
Unrepaired(txt, fn) ==
  \A j \in 1..Len(RepairsOf(fn)) : ~Contains(txt, RepairsOf(fn)[j][1])

\* the text with [unk] for every character outside the printable range and
\* outside the allow-list, every other character as it is
Marked(txt, fn) ==
  Flatten([k \in 1..Len(txt) |->
             IF (32 <= ord(txt[k]) /\ ord(txt[k]) <= 126) \/ txt[k] \in KeptBeside(fn)
               THEN <<txt[k]>> ELSE UNK] \o <<>>)

\* C23: unknown-character marking -- on a text without a sequence of the
\* repair table, the normalizer puts [unk] for every character outside the
\* printable range that is not allow-listed and leaves every printable
\* character, ASCII punctuation included, and every allow-listed one as it
\* is (runs of white space collapsed and the ends stripped)
UnknownMarking ==
  (applied.fn \in {"U_clean_utf8_text", "S_clean_utf8_text"} /\ Len(applied.out) >= 1
     /\ Unrepaired(applied.arg, applied.fn)) =>
    applied.out[1] = strip(collapse_spaces(Marked(applied.arg, applied.fn)))

(* C24 *)

\* the line is the word or its plural in any letter case, with or without a
\* trailing colon
IsHeaderForm(line, word) ==
  lower(line) \in {word, word \o <<"s">>, word \o <<":">>, word \o <<"s", ":">>}

\* the positions (1-based) of the lines written as an Ingredients header, and
\* of those written as a Directions or Instructions header
IngredientForms == { k \in 1..Len(GivenLines) : IsHeaderForm(GivenLines[k], H_INGREDIENT) }
DirectionForms ==
  { k \in 1..Len(GivenLines) :
      IsHeaderForm(GivenLines[k], H_DIRECTION) \/ IsHeaderForm(GivenLines[k], H_INSTRUCTION) }

\* C24: header recognition -- a line that is Ingredient(s), in any letter
\* case, with or without a trailing colon, is taken as the Ingredients header:
\* standing alone among lines 2..5 it makes the lines after it the
\* ingredients; likewise a Direction(s)/Instruction(s) line makes the lines
\* after it the directions
HeaderRecognition ==
  (applied.fn = "U_parse_recipe_text" /\ Len(applied.out) = 1) =>
    /\ (Cardinality(IngredientForms) = 1 /\ DirectionForms = {}
          /\ Min(IngredientForms) \in 2..5 /\ Min(IngredientForms) < Len(GivenLines)) =>
         /\ applied.out[1].title = GivenLines[1]
         /\ applied.out[1].ingredients =
              SubSeq(GivenLines, Min(IngredientForms) + 1, Len(GivenLines))
    /\ (Cardinality(DirectionForms) = 1 /\ IngredientForms = {}
          /\ Min(DirectionForms) >= 2) =>
         applied.out[1].directions =
           join(<<" ">>, SubSeq(GivenLines, Min(DirectionForms) + 1, Len(GivenLines)))

(* C25 *)

\* the part of a line before a clause that It, As or Despite opens
BeforeClause(ln) == strip(strip_dangling_clause(ln))

\* the number of lines in the leading run of title lines: lines that are
\* uppercase up to such a clause, the run ending with a line that has one
RECURSIVE TitleRun(_, _)
TitleRun(lines, k) ==
  IF k > Len(lines) \/ ~is_title_line(BeforeClause(lines[k])) THEN k - 1
  ELSE IF BeforeClause(lines[k]) # lines[k] THEN k
  ELSE TitleRun(lines, k + 1)

\* the title the run gives: its lines up to their clauses, joined by spaces,
\* without the page-number prefix
TitleOfRun(lines) ==
  LET Joined(n) == strip_page_prefix(
                     join(<<" ">>, [k \in 1..n |-> BeforeClause(lines[k])] \o <<>>))
      Named(title) == IF title = <<>> THEN UNTITLED ELSE title
  IN  Named(Joined(TitleRun(lines, 1)))

\* C25: title derivation in the two-column parser -- the title is the leading
\* run of right-column lines that are entirely uppercase, joined by spaces,
\* without a leading page-number prefix; a clause that It, As or Despite opens
\* after the uppercase part of a line is trimmed off and the uppercase part kept
TitleDerivation ==
  (applied.fn = "S_parse_recipe_text" /\ Len(applied.out) = 1) =>
    applied.out[1].title =
      TitleOfRun(stripped_lines(applied.arg.right_text)) \o PageSuffix(applied.arg.page_num)

(* C26 *)

\* the words whose height rounds to y, in the order they arrive
WordsAt(ws, y) == LET At(w) == round0(w.top) = y IN SelectSeq(ws, At)

\* the lines of a column: one line for each rounded height, top of the page
\* first, each holding the words of that height separated by blanks
GroupedLines(ws) ==
  LET Rows(ys) == [k \in 1..Len(ys) |-> join(<<" ">>, TextsOf(WordsAt(ws, ys[k])))] \o <<>>
  IN  Rows(sorted({ round0(ws[k].top) : k \in 1..Len(ws) }))

\* C26: line grouping in the layout extractor -- within a column two words are
\* on the same output line exactly when their vertical positions round to the
\* same unit, they keep their input order inside the line, and the lines stand
\* in increasing order of the rounded position, whatever the order of arrival
LineGrouping ==
  (applied.fn \in {"extract_text_zones", "extract_columns_from_page"} /\ Len(applied.out) = 1) =>
    splitlines(applied.out[1][1]) = GroupedLines(applied.arg.words)

(* C27 *)

NotGarbled(txt) ==
  /\ Len(txt) >= 40
  /\ 5 * Cardinality({ k \in 1..Len(txt) : isalpha(txt[k]) }) >= Len(txt)

\* recognition is enabled, returns, and returns more characters than the text has
OcrLonger(arg, txt) ==
  arg.use_ocr /\ ~arg.page.ocr.raises /\ Len(arg.page.ocr.text) > Len(txt)

\* the three values of the confidence: 0.5 for a text that is not garbled, 0.3
\* for a garbled one that stays, 0.6 for a garbled one that the normalized
\* recognition output replaces
ThreeConfidences(arg, o) ==
  /\ NotGarbled(o.pre) => (o.conf = 50 /\ o.txt = o.pre)
  /\ (~NotGarbled(o.pre) /\ ~OcrLonger(arg, o.pre)) => (o.conf = 30 /\ o.txt = o.pre)
  /\ (~NotGarbled(o.pre) /\ OcrLonger(arg, o.pre)) =>
       (o.conf = 60 /\ o.txt = U_clean_utf8_text(arg.page.ocr.text))

\* C28 as stated: the confidence of extract_best_text is one of the three
\* values, and with the threshold 0.45 a page is accepted exactly in the first
\* and the third case
AcceptedByConfidence ==
  (applied.fn = "U_page" /\ Len(applied.out) = 1) =>
    /\ ThreeConfidences(applied.arg, applied.out[1])
    /\ applied.out[1].accepted <=> (applied.out[1].conf \in {50, 60})

\* C28: the confidence of extract_best_text is one of the three values, and
\* with the threshold 0.45 a page is accepted exactly in the first and the
\* third case when its text is not empty; a page whose text is empty is
\* skipped whatever its confidence
ConfidenceValues ==
  (applied.fn = "U_page" /\ Len(applied.out) = 1) =>
    /\ ThreeConfidences(applied.arg, applied.out[1])
    /\ applied.out[1].accepted <=>
         (applied.out[1].conf \in {50, 60} /\ applied.out[1].txt # <<>>)

\* a page without text whose recognition reads white space: confidence 0.6,
\* an empty text, no record
ConfidenceValuesWitness ==
  /\ applied.fn = "U_page" /\ Len(applied.out) = 1
  /\ applied.arg.use_ocr /\ applied.arg.page.ocr.text = O_BLANK
  /\ applied.out[1].pre = <<>>
  /\ applied.out[1].conf = 60 /\ applied.out[1].txt = <<>>
  /\ ~applied.out[1].built /\ ~applied.out[1].accepted

(* C29 *)

\* the records built so far that were at or above the threshold, in order
AcceptedSoFar ==
  LET Passes(r) == r.confidence >= CONF_THRESHOLD IN SelectSeq(parsed, Passes)

EvenFromStart(n, upto) ==
  { j \in 0..(n - 1) : j >= START_PAGE /\ (j - START_PAGE) % 2 = 0 /\ j < upto }

\* the page numbers of such indices, in ascending order
Labels(chosen) == sorted({ j + 1 : j \in chosen })

\* C30: page selection in the specialized extractor -- for a document of N
\* pages extract_text_from_pdf gives one result for exactly the indices i with
\* START_PAGE <= i < N and i - START_PAGE even, labelled i + 1, in ascending
\* order, and main makes one record of each result
PageSelection ==
  (script = "specialized" /\ pc # "crashed") =>
    /\ [k \in 1..Len(results) |-> results[k].page_num] \o <<>> =
         Labels(EvenFromStart(docs[1].pages,
                              IF pc \in {"start", "extract"} THEN i ELSE docs[1].pages))
    /\ Len(recipes) = IF pc = "done" THEN Len(results) ELSE idx
    /\ \A k \in 1..Len(recipes) :
         EndsWith(recipes[k].title, PageSuffix(results[k].page_num))

\* a document of nine pages read to the end: results for pages 7 and 9, two records
PageSelectionWitness ==
  /\ script = "specialized" /\ pc = "done"
  /\ docs[1].pages = START_PAGE + 3
  /\ Len(results) = 2
  /\ results[1].page_num = START_PAGE + 1 /\ results[2].page_num = START_PAGE + 3
  /\ Len(recipes) = 2

====
